---- MODULE Spec2Model ----
(***************************************************************************)
(* CRE-Tycoon: the yearly real-estate simulation (tycoon engine), its      *)
(* financial primitives and its market evolution, as a state machine.      *)
(*                                                                         *)
(* Numbers.  JavaScript numbers are modelled in fixed point:               *)
(*   - ratios (rates, indices, vacancy, demand, liquidity, LTV) are        *)
(*     integers in units of 1/S, S = 10000 (0.045 is 450);                 *)
(*   - money is an integer number of thousands of dollars (3000000 is      *)
(*     3000);                                                              *)
(*   - a generator draw r in [0,1) is the integer r * RngMod.              *)
(* Divisions round toward minus infinity, where the source keeps the       *)
(* fraction.                                                               *)
(***************************************************************************)
EXTENDS Integers, Sequences, FiniteSets, TLC

VARIABLES
    DATA,       \* reference data: neighborhoods, productTypes, events
    settings,   \* settings collaborator: seed text and difficulty
    rng,        \* state of the run's generator instance
    state,      \* the run: year, cash, market, neighborhoods, properties, ...
    dom,        \* the buttons of the page as render() last drew them
    steps,      \* states after each sub-step of the latest nextYear call
    hist        \* the number of player commands so far; in the two-run
                \* specification also the second run

vars == <<DATA, settings, rng, state, dom, steps, hist>>

\* ------------------------------------------------------------------ scales
S == 10 ^ 4
RngMod == 2 ^ 16
Half == RngMod \div 2

\* ------------------------------------------------------------------ bounds
MaxYear == 6
MaxProps == 2
MaxCmds == 3

\* ------------------------------------------------------------------ utils
Max(a, b) == IF a >= b THEN a ELSE b
Min(a, b) == IF a <= b THEN a ELSE b

clamp(x, lo, hi) == Max(lo, Min(hi, x))

\* p.f = v: the record p with field f set to v, added when p has no such field
Assign(p, f, v) ==
    IF f \in DOMAIN p THEN [p EXCEPT ![f] = v]
    ELSE [g \in DOMAIN p \cup {f} |-> IF g = f THEN v ELSE p[g]]

Null == <<>>
Some(x) == <<x>>
Has(o) == o # <<>>
Get(o) == o[1]

\* ------------------------------------------------------ property.js
computeEffectiveRentFactor(vacancy) ==
    LET concession == clamp((vacancy - 500) \div 2, 0, 800)
    IN  S - concession

\* a computeNOI that returns the difference as it comes
computeNOI_Unfloored(baseNOI, rentIndex, vacancy, expenseRatio) ==
    LET eff == computeEffectiveRentFactor(vacancy)
        revenueFactor == (((rentIndex * (S - vacancy)) \div S) * eff) \div S
        egi == (baseNOI * S) \div (S - expenseRatio)
        newEgi == (egi * revenueFactor) \div S
        opex == (newEgi * expenseRatio) \div S
    IN  newEgi - opex

computeNOI(baseNOI, rentIndex, vacancy, expenseRatio) ==
    LET eff == computeEffectiveRentFactor(vacancy)
        revenueFactor == (((rentIndex * (S - vacancy)) \div S) * eff) \div S
        egi == (baseNOI * S) \div (S - expenseRatio)
        newEgi == (egi * revenueFactor) \div S
        opex == (newEgi * expenseRatio) \div S
    IN  Max(0, newEgi - opex)

valueFromNOI(noi, capRate) ==
    IF capRate > 0 THEN (noi * S) \div capRate ELSE 0

\* (1 + i)^(-n) in units of 1/S
RECURSIVE PowInv(_, _)
PowInv(i, n) ==
    IF n <= 0 THEN S
    ELSE (PowInv(i, n - 1) * S + (S + i) \div 2) \div (S + i)

\* an annualDebtService that reports the whole payment as principal
annualDebtService_PrincipalIsPayment(balance, rate, amortYears, interestOnly) ==
    IF balance <= 0 THEN [payment |-> 0, interest |-> 0, principal |-> 0]
    ELSE LET i == rate
             n == Max(1, amortYears)
             interest == (balance * i) \div S
         IN  IF interestOnly
             THEN [payment |-> interest, interest |-> interest, principal |-> 0]
             ELSE LET pmt == (balance * i) \div (S - PowInv(i, n))
                  IN  [payment |-> pmt, interest |-> interest, principal |-> pmt]

annualDebtService(balance, rate, amortYears, interestOnly) ==
    IF balance <= 0 THEN [payment |-> 0, interest |-> 0, principal |-> 0]
    ELSE LET i == rate
             n == Max(1, amortYears)
             interest == (balance * i) \div S
         IN  IF interestOnly
             THEN [payment |-> interest, interest |-> interest, principal |-> 0]
             ELSE LET pmt == (balance * i) \div (S - PowInv(i, n))
                  IN  [payment |-> pmt, interest |-> interest,
                       principal |-> Max(0, pmt - interest)]

\* ------------------------------------------------------ rng.js
\* One step of the generator: the new state is also the value drawn.
mulberry32(g) == (25173 * g + 13849) % RngMod

RECURSIVE seedFromString(_)
seedFromString(str) ==
    IF str = <<>> THEN 2166
    ELSE (seedFromString(SubSeq(str, 1, Len(str) - 1)) * 31 + str[Len(str)] * 977) % RngMod

\* the k-th value drawn after generator state g
RECURSIVE Draw(_, _)
Draw(g, k) == IF k <= 0 THEN g ELSE Draw(mulberry32(g), k - 1)

\* (r - 0.5) * width, width in units of 1/S
Noise(r, width) == ((r - Half) * width) \div RngMod

\* ------------------------------------------------------ market.js
HasNum(e, f) == f \in DOMAIN e

\* applyEventToMarket adding the deltas and leaving the sums as they are
applyEventToMarket_Unclamped(market, event) ==
    LET e == event.effects
    IN  [baseRate |-> IF HasNum(e, "baseRateDelta") THEN market.baseRate + e.baseRateDelta
                      ELSE market.baseRate,
         spread |-> IF HasNum(e, "spreadDelta") THEN market.spread + e.spreadDelta
                    ELSE market.spread,
         liquidity |-> IF HasNum(e, "liquidityDelta") THEN market.liquidity + e.liquidityDelta
                       ELSE market.liquidity]

applyEventToMarket(market, event) ==
    LET e == event.effects
        b == IF HasNum(e, "baseRateDelta") THEN market.baseRate + e.baseRateDelta
             ELSE market.baseRate
        s == IF HasNum(e, "spreadDelta") THEN market.spread + e.spreadDelta
             ELSE market.spread
        l == IF HasNum(e, "liquidityDelta") THEN market.liquidity + e.liquidityDelta
             ELSE market.liquidity
    IN  [baseRate |-> clamp(b, 0, 1200),
         spread |-> clamp(s, 0, 800),
         liquidity |-> clamp(l, 2000, 10000)]

\* applyEventToNeighborhood holding the vacancy below its upper bound only
applyEventToNeighborhood_NoVacancyFloor(n, event) ==
    LET e == event.effects
    IN  [n EXCEPT
          !.demand = IF HasNum(e, "demandDelta")
                     THEN clamp(@ + e.demandDelta, 2000, 12000) ELSE @,
          !.rentIndex = IF HasNum(e, "rentIndexDelta")
                        THEN clamp(@ + e.rentIndexDelta, 6000, 18000) ELSE @,
          !.vacancy = IF HasNum(e, "vacancyDelta")
                      THEN Min(@ + e.vacancyDelta, 3500) ELSE @,
          !.capRate = IF HasNum(e, "capRateDelta")
                      THEN clamp(@ + e.capRateDelta, 300, 1200) ELSE @]

applyEventToNeighborhood(n, event) ==
    LET e == event.effects
    IN  [n EXCEPT
          !.demand = IF HasNum(e, "demandDelta")
                     THEN clamp(@ + e.demandDelta, 2000, 12000) ELSE @,
          !.rentIndex = IF HasNum(e, "rentIndexDelta")
                        THEN clamp(@ + e.rentIndexDelta, 6000, 18000) ELSE @,
          !.vacancy = IF HasNum(e, "vacancyDelta")
                      THEN clamp(@ + e.vacancyDelta, 100, 3500) ELSE @,
          !.capRate = IF HasNum(e, "capRateDelta")
                      THEN clamp(@ + e.capRateDelta, 300, 1200) ELSE @]

\* n after one year, drawing the four values that follow generator state g
updateNeighborhoodYear(n, market, g) ==
    LET noise == Noise(Draw(g, 1), 400)
        mean == n.baseDemand
        demand == clamp(n.demand + ((mean - n.demand) * 25) \div 100 + noise, 2000, 12000)
        vacShock == Noise(Draw(g, 2), 200)
        targetVac == clamp(1400 - ((demand - 6000) * 12) \div 100, 300, 2800)
        vacancy == clamp(n.vacancy + ((targetVac - n.vacancy) * 35) \div 100 + vacShock, 100, 3500)
        rgBase == 200
        rgTightBonus == clamp(((1000 - vacancy) * 25) \div 100, -300, 400)
        rgNoise == Noise(Draw(g, 3), 200)
        rentGrowth == clamp(rgBase + rgTightBonus + rgNoise, -600, 1000)
        rentIndex == clamp((n.rentIndex * (S + rentGrowth)) \div S, 6000, 18000)
        rateComponent == (market.baseRate * 55) \div 100 + (market.spread * 65) \div 100
        liqComponent == ((market.liquidity - 6000) * 2) \div 100
        targetCap == clamp((n.capRate * 5) \div 10 + ((450 + rateComponent - liqComponent) * 5) \div 10,
                           300, 1200)
        capNoise == Noise(Draw(g, 4), 40)
        capRate == clamp(n.capRate + ((targetCap - n.capRate) * 35) \div 100 + capNoise, 300, 1200)
    IN  [n EXCEPT !.demand = demand, !.vacancy = vacancy,
                  !.rentIndex = rentIndex, !.capRate = capRate]

\* market after one year, drawing the three values that follow generator state g
updateMarketYear(market, g) ==
    LET drift == 10
        shock == Noise(Draw(g, 1), 100)
        baseRate == clamp(market.baseRate + drift + shock, 0, 1200)
        spreadShock == Noise(Draw(g, 2), 40)
        spread == clamp(market.spread + spreadShock - ((market.liquidity - 6000) * 3) \div 1000,
                        0, 800)
        liqShock == Noise(Draw(g, 3), 800)
        liquidity == clamp(market.liquidity + ((7000 - market.liquidity) * 2) \div 10 + liqShock,
                           2000, 10000)
    IN  [baseRate |-> baseRate, spread |-> spread, liquidity |-> liquidity]

\* ------------------------------------------------------ tycoon.js: helpers
\* RUN_DEFAULTS.cash and the difficulty tiers of initRun
StartCash(difficulty) ==
    CASE difficulty = "easy" -> 4500
      [] difficulty = "hard" -> 2200
      [] OTHER -> 3000

LEASE_RULES(productType) ==
    CASE productType = "multifamily" -> [termMin |-> 1, termMax |-> 2, rollPct |-> 5500]
      [] productType = "hotel"       -> [termMin |-> 1, termMax |-> 1, rollPct |-> 10000]
      [] productType = "industrial"  -> [termMin |-> 3, termMax |-> 7, rollPct |-> 1800]
      [] productType = "retail"      -> [termMin |-> 5, termMax |-> 10, rollPct |-> 1200]
      [] productType = "office"      -> [termMin |-> 5, termMax |-> 12, rollPct |-> 800]
      [] productType = "mixeduse"    -> [termMin |-> 2, termMax |-> 5, rollPct |-> 2200]
      [] OTHER                       -> [termMin |-> 3, termMax |-> 7, rollPct |-> 1500]

\* r is the value rng() returned
randInt(r, min, max) == min + (r * (max - min + 1)) \div RngMod

\* floor(rng() * n), r the value rng() returned
FloorMul(r, n) == (r * n) \div RngMod

\* floor(rng() * 1e6)
IdNumber(r) == (r * 15625) \div 1024

\* position of the first element of seq with this id, 0 when there is none
IndexOf(seq, id) ==
    IF \E i \in 1..Len(seq) : seq[i].id = id
    THEN CHOOSE i \in 1..Len(seq) :
             seq[i].id = id /\ \A j \in 1..(i - 1) : seq[j].id # id
    ELSE 0

RemoveAt(seq, i) == SubSeq(seq, 1, i - 1) \o SubSeq(seq, i + 1, Len(seq))

getNeighborhood(st, id) == st.neighborhoods[IndexOf(st.neighborhoods, id)]

\* DATA.productTypes.find(p => p.id === id), productTypesById[id]
Product(id) == DATA.productTypes[IndexOf(DATA.productTypes, id)]

\* a maturity draw with the 7-year band missing
makeMaturityYears_NoSeven(r) ==
    IF r * 100 < 45 * RngMod THEN 5 ELSE 10

\* r is the value rng() returned
makeMaturityYears(r) ==
    IF r * 100 < 45 * RngMod THEN 5
    ELSE IF r * 100 < 75 * RngMod THEN 7
    ELSE 10

\* p.lease && typeof p.lease.leaseRentIndex === "number"
HasLease(p) == "lease" \in DOMAIN p /\ Has(p.lease)

\* p.renoLevel || 0
RenoLevel(p) == IF "renoLevel" \in DOMAIN p THEN p.renoLevel ELSE 0

\* p.ltv ?? 0.65
Ltv(p) == IF "ltv" \in DOMAIN p THEN p.ltv ELSE 6500

MarketRentIndex(st, p) ==
    (getNeighborhood(st, p.neighborhood).rentIndex * p.rentIndexMult) \div S

\* p with a fresh lease; r is the value randInt drew
initLeaseForProperty(st, p, r) ==
    LET rules == LEASE_RULES(p.productType)
    IN  Assign(p, "lease", Some([yearsRemaining |-> randInt(r, rules.termMin, rules.termMax),
                                 rollPct |-> rules.rollPct,
                                 leaseRentIndex |-> MarketRentIndex(st, p)]))

\* an iteration that marks the rent to market at expiry only
LeaseStep_RollsAtExpiryOnly(c, i) ==
    LET p == c.state.properties[i]
        g1 == mulberry32(c.rng)
    IN  IF ~HasLease(p)
        THEN [c EXCEPT !.state.properties[i] = initLeaseForProperty(c.state, p, g1),
                       !.rng = g1]
        ELSE LET lease == Get(p.lease)
                 marketRentIndex == MarketRentIndex(c.state, p)
                 roll == clamp(lease.rollPct, 0, S)
                 blended == (lease.leaseRentIndex * (S - roll) + marketRentIndex * roll) \div S
                 yrs == lease.yearsRemaining - 1
                 rules == LEASE_RULES(p.productType)
             IN  IF yrs <= 0
                 THEN [c EXCEPT !.state.properties[i].lease =
                                    Some([lease EXCEPT
                                        !.yearsRemaining = randInt(g1, rules.termMin, rules.termMax),
                                        !.leaseRentIndex = marketRentIndex]),
                                !.rng = g1]
                 ELSE [c EXCEPT !.state.properties[i].lease =
                                    Some([lease EXCEPT !.yearsRemaining = yrs])]

\* an iteration that renews a lease once its term has gone below 0
LeaseStep_RenewsBelowZero(c, i) ==
    LET p == c.state.properties[i]
        g1 == mulberry32(c.rng)
    IN  IF ~HasLease(p)
        THEN [c EXCEPT !.state.properties[i] = initLeaseForProperty(c.state, p, g1),
                       !.rng = g1]
        ELSE LET lease == Get(p.lease)
                 marketRentIndex == MarketRentIndex(c.state, p)
                 roll == clamp(lease.rollPct, 0, S)
                 blended == (lease.leaseRentIndex * (S - roll) + marketRentIndex * roll) \div S
                 yrs == lease.yearsRemaining - 1
                 rules == LEASE_RULES(p.productType)
             IN  IF yrs < 0
                 THEN [c EXCEPT !.state.properties[i].lease =
                                    Some([lease EXCEPT
                                        !.yearsRemaining = randInt(g1, rules.termMin, rules.termMax),
                                        !.leaseRentIndex = marketRentIndex]),
                                !.rng = g1]
                 ELSE [c EXCEPT !.state.properties[i].lease =
                                    Some([lease EXCEPT !.yearsRemaining = yrs,
                                                       !.leaseRentIndex = blended])]

\* one iteration of the loop of updateLeasesOneYear, on property i
LeaseStep(c, i) ==
    LET p == c.state.properties[i]
        g1 == mulberry32(c.rng)
    IN  IF ~HasLease(p)
        THEN [c EXCEPT !.state.properties[i] = initLeaseForProperty(c.state, p, g1),
                       !.rng = g1]
        ELSE LET lease == Get(p.lease)
                 marketRentIndex == MarketRentIndex(c.state, p)
                 roll == clamp(lease.rollPct, 0, S)
                 blended == (lease.leaseRentIndex * (S - roll) + marketRentIndex * roll) \div S
                 yrs == lease.yearsRemaining - 1
                 rules == LEASE_RULES(p.productType)
             IN  IF yrs <= 0
                 THEN [c EXCEPT !.state.properties[i].lease =
                                    Some([lease EXCEPT
                                        !.yearsRemaining = randInt(g1, rules.termMin, rules.termMax),
                                        !.leaseRentIndex = marketRentIndex]),
                                !.rng = g1]
                 ELSE [c EXCEPT !.state.properties[i].lease =
                                    Some([lease EXCEPT !.yearsRemaining = yrs,
                                                       !.leaseRentIndex = blended])]

RECURSIVE LeaseLoop(_, _)
LeaseLoop(c, i) ==
    IF i > Len(c.state.properties) THEN c ELSE LeaseLoop(LeaseStep(c, i), i + 1)

updateLeasesOneYear(c) == LeaseLoop(c, 1)

computePropertySnapshot(st, p) ==
    LET n == getNeighborhood(st, p.neighborhood)
        product == Product(p.productType)
        noi == computeNOI(p.baseNOI,
                          IF HasLease(p) THEN Get(p.lease).leaseRentIndex
                          ELSE (n.rentIndex * p.rentIndexMult) \div S,
                          clamp(n.vacancy + p.vacancyDelta, 100, 4000),
                          product.baseExpenseRatio)
        capRate == clamp(n.capRate + p.capRateDelta, 300, 1400)
        value == valueFromNOI(noi, capRate)
        ds == annualDebtService(p.loanBalance, p.loanRate, p.amortYears, p.interestOnly)
    IN  [noi |-> noi, capRate |-> capRate, value |-> value, ds |-> ds]

\* an iteration that stabilizes a property at the vacancy of its lease-up
BuildStep_KeepsLeaseUpVacancy(c, i) ==
    LET p == c.state.properties[i]
    IN  IF ~Has(p.build) THEN c
        ELSE
        LET b == Get(p.build)
        IN  IF b.phase = "construction"
            THEN LET yr == b.yearsRemaining - 1
                 IN  [c EXCEPT !.state.properties[i].build =
                          Some([b EXCEPT !.yearsRemaining = yr,
                                         !.phase = IF yr <= 0 THEN "leaseup" ELSE @])]
            ELSE IF b.phase = "leaseup"
            THEN LET sy == b.stabilizeYearsRemaining - 1
                     vd == Max(p.vacancyDelta, b.leaseUpVacancy)
                     g1 == mulberry32(c.rng)
                     g2 == mulberry32(g1)
                     g3 == mulberry32(g2)
                     m == c.state.market
                     perm == Assign([p EXCEPT
                               !.build = Null,
                               !.vacancyDelta = vd,
                               !.interestOnly = FALSE,
                               !.amortYears = 30,
                               !.loanRate = clamp(m.baseRate + m.spread + 180
                                                  + (g1 * 100) \div RngMod, 400, 1600)],
                               "maturityYear", c.state.year + makeMaturityYears(g2))
                 IN  IF sy <= 0
                     THEN [c EXCEPT !.state.properties[i] =
                                        initLeaseForProperty(c.state, perm, g3),
                                    !.rng = g3]
                     ELSE [c EXCEPT !.state.properties[i] =
                              [p EXCEPT !.vacancyDelta = vd,
                                        !.build = Some([b EXCEPT !.stabilizeYearsRemaining = sy])]]
            ELSE c

\* an iteration that counts the year of delivery as a year of lease-up
BuildStep_LeasesOnDelivery(c, i) ==
    LET p == c.state.properties[i]
    IN  IF ~Has(p.build) THEN c
        ELSE
        LET b == Get(p.build)
        IN  IF b.phase = "construction"
            THEN LET yr == b.yearsRemaining - 1
                 IN  [c EXCEPT !.state.properties[i].build =
                          Some([b EXCEPT !.yearsRemaining = yr,
                                         !.phase = IF yr <= 0 THEN "leaseup" ELSE @,
                                         !.stabilizeYearsRemaining =
                                             IF yr <= 0 THEN @ - 1 ELSE @])]
            ELSE IF b.phase = "leaseup"
            THEN LET sy == b.stabilizeYearsRemaining - 1
                     vd == Max(p.vacancyDelta, b.leaseUpVacancy)
                     g1 == mulberry32(c.rng)
                     g2 == mulberry32(g1)
                     g3 == mulberry32(g2)
                     m == c.state.market
                     perm == Assign([p EXCEPT
                               !.build = Null,
                               !.vacancyDelta = 0,
                               !.interestOnly = FALSE,
                               !.amortYears = 30,
                               !.loanRate = clamp(m.baseRate + m.spread + 180
                                                  + (g1 * 100) \div RngMod, 400, 1600)],
                               "maturityYear", c.state.year + makeMaturityYears(g2))
                 IN  IF sy <= 0
                     THEN [c EXCEPT !.state.properties[i] =
                                        initLeaseForProperty(c.state, perm, g3),
                                    !.rng = g3]
                     ELSE [c EXCEPT !.state.properties[i] =
                              [p EXCEPT !.vacancyDelta = vd,
                                        !.build = Some([b EXCEPT !.stabilizeYearsRemaining = sy])]]
            ELSE c

\* one iteration of the loop of processBuildPhases, on property i
BuildStep(c, i) ==
    LET p == c.state.properties[i]
    IN  IF ~Has(p.build) THEN c
        ELSE
        LET b == Get(p.build)
        IN  IF b.phase = "construction"
            THEN LET yr == b.yearsRemaining - 1
                 IN  [c EXCEPT !.state.properties[i].build =
                          Some([b EXCEPT !.yearsRemaining = yr,
                                         !.phase = IF yr <= 0 THEN "leaseup" ELSE @])]
            ELSE IF b.phase = "leaseup"
            THEN LET sy == b.stabilizeYearsRemaining - 1
                     vd == Max(p.vacancyDelta, b.leaseUpVacancy)
                     g1 == mulberry32(c.rng)
                     g2 == mulberry32(g1)
                     g3 == mulberry32(g2)
                     m == c.state.market
                     perm == Assign([p EXCEPT
                               !.build = Null,
                               !.vacancyDelta = 0,
                               !.interestOnly = FALSE,
                               !.amortYears = 30,
                               !.loanRate = clamp(m.baseRate + m.spread + 180
                                                  + (g1 * 100) \div RngMod, 400, 1600)],
                               "maturityYear", c.state.year + makeMaturityYears(g2))
                 IN  IF sy <= 0
                     THEN [c EXCEPT !.state.properties[i] =
                                        initLeaseForProperty(c.state, perm, g3),
                                    !.rng = g3]
                     ELSE [c EXCEPT !.state.properties[i] =
                              [p EXCEPT !.vacancyDelta = vd,
                                        !.build = Some([b EXCEPT !.stabilizeYearsRemaining = sy])]]
            ELSE c

RECURSIVE BuildLoop(_, _)
BuildLoop(c, i) ==
    IF i > Len(c.state.properties) THEN c ELSE BuildLoop(BuildStep(c, i), i + 1)

processBuildPhases(c) == BuildLoop(c, 1)

\* a cash flow step that adds the year's interest to the balance
CashFlowStep_Capitalizes(c, i, snap) ==
    [c EXCEPT !.state.properties[i].loanBalance = Max(0, @ + snap.ds.interest - snap.ds.principal),
              !.state.cash = @ + (snap.noi - snap.ds.payment)]

\* the loop of applyOperatingCashFlow from property i on: the properties with
\* their balances amortized, and the cash flow summed
\* one iteration: c.state.cash collects totalCF; snap is the property's noi and ds
CashFlowStep(c, i, snap) ==
    [c EXCEPT !.state.properties[i].loanBalance = Max(0, @ - snap.ds.principal),
              !.state.cash = @ + (snap.noi - snap.ds.payment)]

RECURSIVE CashFlowLoop(_, _)
CashFlowLoop(c, i) ==
    IF i > Len(c.state.properties) THEN c
    ELSE CashFlowLoop(
             CashFlowStep(c, i, computePropertySnapshot(c.state, c.state.properties[i])),
             i + 1)

applyOperatingCashFlow(c) == CashFlowLoop(c, 1)

\* net proceeds of a sale at salePrice of a property owing loanBalance
SaleNet(salePrice, loanBalance) ==
    LET sellingCosts == (salePrice * 2) \div 100
        netBeforeDebt == salePrice - sellingCosts
    IN  netBeforeDebt - loanBalance

\* the sale of property idx for net proceeds net
Sold(c, idx, salePrice, net) ==
    [c EXCEPT
      !.state.cash = @ + net,
      !.state.properties = RemoveAt(@, idx),
      !.state.journal = Append(@, [year |-> c.state.year, action |-> "SELL",
                                   target |-> c.state.properties[idx].id,
                                   price |-> salePrice, net |-> net])]

\* a sale that is called off when its net proceeds would be negative
SellAt_OnlyAtAGain(c, idx, salePrice) ==
    IF SaleNet(salePrice, c.state.properties[idx].loanBalance) < 0 THEN c
    ELSE Sold(c, idx, salePrice, SaleNet(salePrice, c.state.properties[idx].loanBalance))

\* the sale of property idx at salePrice
SellAt(c, idx, salePrice) ==
    Sold(c, idx, salePrice, SaleNet(salePrice, c.state.properties[idx].loanBalance))

sellProperty(c, propertyId) ==
    LET idx == IndexOf(c.state.properties, propertyId)
    IN  IF idx = 0 THEN c
        ELSE SellAt(c, idx, computePropertySnapshot(c.state, c.state.properties[idx]).value)

RenoCost(value, nextLevel) ==
    clamp((((value * 3) \div 100) * (100 + (nextLevel - 1) * 35)) \div 100, 200, 5000)

\* a renovation that goes ahead whenever cash is not negative
Renovated_OnCredit(c, idx, nextLevel, cost) ==
    LET p == c.state.properties[idx]
        q == Assign([p EXCEPT !.rentIndexMult = clamp(@ + 300, 8000, 13500),
                              !.vacancyDelta = clamp(@ - 50, -800, 2000)],
                    "renoLevel", nextLevel)
    IN  IF c.state.cash < 0 THEN c
        ELSE [c EXCEPT
               !.state.cash = @ - cost,
               !.state.properties[idx] =
                   IF HasLease(p)
                   THEN [q EXCEPT !.lease = Some([Get(p.lease) EXCEPT
                                    !.leaseRentIndex = clamp((@ * 101) \div 100, 6000, 20000)])]
                   ELSE q,
               !.state.journal = Append(@, [year |-> c.state.year, action |-> "RENO",
                                            target |-> p.id, cost |-> cost,
                                            level |-> nextLevel])]

\* the renovation of property idx to nextLevel at this cost
Renovated(c, idx, nextLevel, cost) ==
    LET p == c.state.properties[idx]
        q == Assign([p EXCEPT !.rentIndexMult = clamp(@ + 300, 8000, 13500),
                              !.vacancyDelta = clamp(@ - 50, -800, 2000)],
                    "renoLevel", nextLevel)
    IN  IF c.state.cash < cost THEN c
        ELSE [c EXCEPT
               !.state.cash = @ - cost,
               !.state.properties[idx] =
                   IF HasLease(p)
                   THEN [q EXCEPT !.lease = Some([Get(p.lease) EXCEPT
                                    !.leaseRentIndex = clamp((@ * 101) \div 100, 6000, 20000)])]
                   ELSE q,
               !.state.journal = Append(@, [year |-> c.state.year, action |-> "RENO",
                                            target |-> p.id, cost |-> cost,
                                            level |-> nextLevel])]

\* renovateProperty without its top level
renovateProperty_NoTopLevel(c, propertyId) ==
    LET idx == IndexOf(c.state.properties, propertyId)
        p == c.state.properties[idx]
        nextLevel == RenoLevel(p) + 1
    IN  IF idx = 0 THEN c
        ELSE Renovated(c, idx, nextLevel,
                       RenoCost(computePropertySnapshot(c.state, p).value, nextLevel))

renovateProperty(c, propertyId) ==
    LET idx == IndexOf(c.state.properties, propertyId)
        p == c.state.properties[idx]
        maxLevel == 3
        nextLevel == RenoLevel(p) + 1
    IN  IF idx = 0 THEN c
        ELSE IF RenoLevel(p) >= maxLevel THEN c
        ELSE Renovated(c, idx, nextLevel,
                       RenoCost(computePropertySnapshot(c.state, p).value, nextLevel))

\* a refinance that goes through on any cash balance that is not negative
Refinance_OnAnyCash(c, idx, newLoan) ==
    LET p == c.state.properties[idx]
        payoff == p.loanBalance
        g1 == mulberry32(c.rng)
        g2 == mulberry32(g1)
        m == c.state.market
        newRate == clamp(m.baseRate + m.spread + 180 + (g1 * 100) \div RngMod, 300, 1800)
        maturityYears == makeMaturityYears(g2)
        refi == Assign([p EXCEPT !.loanBalance = newLoan,
                          !.loanRate = newRate,
                          !.amortYears = 30,
                          !.interestOnly = FALSE],
                          "maturityYear", c.state.year + maturityYears)
        gap == payoff - newLoan
    IN  IF newLoan >= payoff
        THEN [c |-> [c EXCEPT !.state.cash = @ + (newLoan - payoff),
                              !.state.properties[idx] = refi,
                              !.rng = g2],
              ok |-> TRUE]
        ELSE IF c.state.cash >= 0
        THEN [c |-> [c EXCEPT !.state.cash = @ - gap,
                              !.state.properties[idx] = refi,
                              !.rng = g2],
              ok |-> TRUE]
        ELSE [c |-> [c EXCEPT !.rng = g2], ok |-> FALSE]

\* a refinance that charges the new lender's fee of 1% of the new loan to cash
Refinance_ChargesFee(c, idx, newLoan) ==
    LET p == c.state.properties[idx]
        payoff == p.loanBalance
        g1 == mulberry32(c.rng)
        g2 == mulberry32(g1)
        m == c.state.market
        newRate == clamp(m.baseRate + m.spread + 180 + (g1 * 100) \div RngMod, 300, 1800)
        maturityYears == makeMaturityYears(g2)
        refi == Assign([p EXCEPT !.loanBalance = newLoan,
                          !.loanRate = newRate,
                          !.amortYears = 30,
                          !.interestOnly = FALSE],
                          "maturityYear", c.state.year + maturityYears)
        gap == payoff - newLoan
        fee == newLoan \div 100
    IN  IF newLoan >= payoff
        THEN [c |-> [c EXCEPT !.state.cash = @ + (newLoan - payoff) - fee,
                              !.state.properties[idx] = refi,
                              !.rng = g2],
              ok |-> TRUE]
        ELSE IF c.state.cash >= gap
        THEN [c |-> [c EXCEPT !.state.cash = @ - gap - fee,
                              !.state.properties[idx] = refi,
                              !.rng = g2],
              ok |-> TRUE]
        ELSE [c |-> [c EXCEPT !.rng = g2], ok |-> FALSE]

\* attemptRefi on property idx: the context afterwards and the value returned
Refinance(c, idx, newLoan) ==
    LET p == c.state.properties[idx]
        payoff == p.loanBalance
        g1 == mulberry32(c.rng)
        g2 == mulberry32(g1)
        m == c.state.market
        newRate == clamp(m.baseRate + m.spread + 180 + (g1 * 100) \div RngMod, 300, 1800)
        maturityYears == makeMaturityYears(g2)
        refi == Assign([p EXCEPT !.loanBalance = newLoan,
                          !.loanRate = newRate,
                          !.amortYears = 30,
                          !.interestOnly = FALSE],
                          "maturityYear", c.state.year + maturityYears)
        gap == payoff - newLoan
    IN  IF newLoan >= payoff
        THEN [c |-> [c EXCEPT !.state.cash = @ + (newLoan - payoff),
                              !.state.properties[idx] = refi,
                              !.rng = g2],
              ok |-> TRUE]
        ELSE IF c.state.cash >= gap
        THEN [c |-> [c EXCEPT !.state.cash = @ - gap,
                              !.state.properties[idx] = refi,
                              !.rng = g2],
              ok |-> TRUE]
        ELSE [c |-> [c EXCEPT !.rng = g2], ok |-> FALSE]

attemptRefi(c, idx) ==
    Refinance(c, idx,
              Max(0, (computePropertySnapshot(c.state, c.state.properties[idx]).value
                      * Ltv(c.state.properties[idx])) \div S))

\* the state and generator after a sub-step of nextYear, appended to steps
Snap(c, name) ==
    [c EXCEPT !.steps = Append(@, [step |-> name, state |-> c.state, rng |-> c.rng])]

\* a forced sale that leaves a negative balance as it is
FloorCash_Skipped(c) == c

\* the bankruptcy clamp after a forced sale
FloorCash(c) == IF c.state.cash < 0 THEN [c EXCEPT !.state.cash = 0] ELSE c

\* the maturity of property id handled: the run before it, as attemptRefi
\* (which returned r) left it, and after it are appended to steps
MaturitySnap(before, id, r, after) ==
    [after EXCEPT !.steps = Append(@, [step |-> "maturity", id |-> id, ok |-> r.ok,
                                       before |-> before.state, refi |-> r.c.state,
                                       state |-> after.state, rng |-> after.rng])]

\* r is what attemptRefi returned
AfterRefi(c, id, r) ==
    IF r.ok THEN MaturitySnap(c, id, r, r.c)
    ELSE MaturitySnap(c, id, r, FloorCash(sellProperty(r.c, id)))

\* an iteration that tests the refinance against the cash balance the year's
\* maturities started with
MaturityStep_CashAtStart(c, id) ==
    AfterRefi(c, id,
              attemptRefi([c EXCEPT !.state.cash =
                              c.steps[CHOOSE k \in 1..Len(c.steps) : c.steps[k].step = "build"].state.cash],
                          IndexOf(c.state.properties, id)))
\* one iteration of the loop of handleMaturities, on the matured property id
MaturityStep(c, id) ==
    AfterRefi(c, id, attemptRefi(c, IndexOf(c.state.properties, id)))

RECURSIVE MaturityLoop(_, _, _)
MaturityLoop(c, matured, k) ==
    IF k > Len(matured) THEN c
    ELSE MaturityLoop(MaturityStep(c, matured[k]), matured, k + 1)

\* a maturity test that lets the year of the maturity pass
IsMatured_YearAfter(st, p) ==
    /\ "maturityYear" \in DOMAIN p
    /\ p.maturityYear # 0
    /\ p.maturityYear < st.year

\* a maturity test that takes a loan without a maturity year as due
IsMatured_AbsentIsDue(st, p) ==
    \/ "maturityYear" \notin DOMAIN p
    \/ p.maturityYear # 0 /\ p.maturityYear <= st.year

\* p.maturityYear && p.maturityYear <= state.year
IsMatured(st, p) ==
    /\ "maturityYear" \in DOMAIN p
    /\ p.maturityYear # 0
    /\ p.maturityYear <= st.year

RECURSIVE Ids(_)
Ids(seq) == IF seq = <<>> THEN <<>> ELSE <<Head(seq).id>> \o Ids(Tail(seq))

handleMaturities(c) ==
    LET st == c.state
        Matured(p) == IsMatured(st, p)
        matured == Ids(SelectSeq(st.properties, Matured))
    IN  MaturityLoop(c, matured, 1)

pickEvent(events, g) ==
    LET roll == Draw(g, 1)
        pick == Draw(g, 2)
    IN  IF roll * 100 < 35 * RngMod
        THEN [event |-> Null, rng |-> roll]
        ELSE [event |-> Some(events[FloorMul(pick, Len(events)) + 1]), rng |-> pick]

\* a filter that lets every product type through
Allowed_Any(n) == Ids(DATA.productTypes)

\* productIds.filter(pid => n.zoning.includes(pid))
Allowed(n) ==
    LET InZoning(p) == p.id \in n.zoning
    IN  Ids(SelectSeq(DATA.productTypes, InZoning))

\* one iteration of the loop of generateListings; i counts from 0
ListingStep(c, listings, i) ==
    LET st == c.state
        g1 == mulberry32(c.rng)
        n == st.neighborhoods[FloorMul(g1, Len(st.neighborhoods)) + 1]
        allowed == Allowed(n)
        g2 == mulberry32(g1)
        productType == allowed[FloorMul(g2, Len(allowed)) + 1]
        g3 == mulberry32(g2)
        baseNOI == 350 + (g3 * 900) \div RngMod
        impliedNOI == (((baseNOI * n.rentIndex) \div S) * (S - n.vacancy)) \div S
        g4 == mulberry32(g3)
        cap == clamp(n.capRate + Noise(g4, 100), 400, 1200)
        price == (impliedNOI * S + cap \div 2) \div cap
        g5 == mulberry32(g4)
        loanRate == clamp(st.market.baseRate + st.market.spread + 120
                          + (g5 * 100) \div RngMod, 300, 1400)
        g6 == mulberry32(g5)
        listing == [id |-> [kind |-> "L", year |-> st.year, i |-> i, n |-> IdNumber(g6)],
                    neighborhood |-> n.id,
                    productType |-> productType,
                    price |-> price,
                    baseNOI |-> baseNOI,
                    loanTerms |-> [ltv |-> 6500, rate |-> loanRate, amortYears |-> 30,
                                   interestOnly |-> FALSE]]
    IN  IF allowed = <<>>
        THEN [c |-> [c EXCEPT !.rng = g1], listings |-> listings]
        ELSE [c |-> [c EXCEPT !.rng = g6], listings |-> Append(listings, listing)]

RECURSIVE ListingLoop(_, _, _)
ListingLoop(c, listings, i) ==
    IF i >= 3 THEN [c EXCEPT !.state.listings = listings]
    ELSE LET r == ListingStep(c, listings, i)
         IN  ListingLoop(r.c, r.listings, i + 1)

generateListings(c) == ListingLoop(c, <<>>, 0)

canBuy(st, listing) ==
    LET down == (listing.price * (S - listing.loanTerms.ltv)) \div S
    IN  st.cash >= down

PropertyId(listingId) == [listingId EXCEPT !.kind = "P"]

buyListing(c, listing) ==
    LET st == c.state
        down == (listing.price * (S - listing.loanTerms.ltv)) \div S
        loanBalance == (listing.price * listing.loanTerms.ltv) \div S
        g1 == mulberry32(c.rng)
        maturityYears == makeMaturityYears(g1)
        g2 == mulberry32(g1)
        p == [id |-> PropertyId(listing.id),
              neighborhood |-> listing.neighborhood,
              productType |-> listing.productType,
              baseNOI |-> listing.baseNOI,
              rentIndexMult |-> S,
              vacancyDelta |-> 0,
              capRateDelta |-> 0,
              renoLevel |-> 0,
              ltv |-> listing.loanTerms.ltv,
              loanBalance |-> loanBalance,
              loanRate |-> listing.loanTerms.rate,
              amortYears |-> listing.loanTerms.amortYears,
              interestOnly |-> listing.loanTerms.interestOnly,
              maturityYear |-> st.year + maturityYears,
              build |-> Null,
              lease |-> Null]
    IN  [c EXCEPT
          !.state.cash = @ - down,
          !.state.properties = Append(@, initLeaseForProperty(st, p, g2)),
          !.state.journal = Append(@, [year |-> st.year, action |-> "BUY",
                                       target |-> listing.id, price |-> listing.price]),
          !.rng = g2]
\* the cost startBuild asks for a build in neighborhood n, in $K, when the
\* random draw is r: 9M to 18M, times the scarcity premium and the rent index,
\* rounded to the thousand
BuildCost(n, r) ==
    LET scarcityPremium == S + (n.scarcity * 35) \div 100
        raw == (((9000 + (r * 9000) \div RngMod) * scarcityPremium) \div S) * n.rentIndex
    IN  (raw + S \div 2) \div S

startBuild(c, neighborhoodId, productType) ==
    LET st == c.state
        n == getNeighborhood(st, neighborhoodId)
        g1 == mulberry32(c.rng)
        cost == BuildCost(n, g1)
        equity == (cost * 25) \div 100
        loanBalance == (cost * 75) \div 100
        g2 == mulberry32(g1)
        product == Product(productType)
        p == [id |-> [kind |-> "B", year |-> st.year, i |-> 0, n |-> IdNumber(g2)],
              neighborhood |-> neighborhoodId,
              productType |-> productType,
              baseNOI |-> 650,
              rentIndexMult |-> S,
              vacancyDelta |-> 0,
              capRateDelta |-> 0,
              renoLevel |-> 0,
              ltv |-> 6500,
              loanBalance |-> loanBalance,
              loanRate |-> clamp(st.market.baseRate + st.market.spread + 200, 400, 1600),
              amortYears |-> 30,
              interestOnly |-> TRUE,
              maturityYear |-> st.year + 3,
              build |-> Some([phase |-> "construction",
                              yearsRemaining |-> product.build.yearsToBuild,
                              stabilizeYearsRemaining |-> product.build.yearsToStabilize,
                              leaseUpVacancy |-> product.build.leaseUpVacancy]),
              lease |-> Null]
    IN  IF productType \notin n.zoning THEN c
        ELSE IF st.cash * 100 < cost * 25 THEN [c EXCEPT !.rng = g1]
        ELSE [c EXCEPT
               !.state.cash = @ - equity,
               !.state.properties = Append(@, p),
               !.state.journal = Append(@, [year |-> st.year, action |-> "BUILD",
                                            target |-> neighborhoodId, cost |-> cost]),
               !.rng = g2]

\* the buttons render() puts in the page: a Buy button per listing that canBuy
\* accepts, Renovate and Sell buttons per property
render(st) ==
    [buy |-> {st.listings[i].id : i \in {j \in 1..Len(st.listings) : canBuy(st, st.listings[j])}},
     props |-> {st.properties[i].id : i \in 1..Len(st.properties)}]

\* render() called on the run
Redraw(c) == [c EXCEPT !.dom = render(c.state)]

\* an event step that sends every event that is not a neighborhood event to
\* the market
ApplyEvent_MarketByDefault(c, event) ==
    IF ~Has(event) THEN c
    ELSE LET e == Get(event)
             idx == IndexOf(c.state.neighborhoods, e.targetNeighborhood)
         IN  IF e.scope = "neighborhood"
             THEN IF idx # 0
                  THEN [c EXCEPT !.state.neighborhoods[idx] = applyEventToNeighborhood(@, e)]
                  ELSE c
             ELSE [c EXCEPT !.state.market = applyEventToMarket(@, e)]

\* the event step of nextYear
ApplyEvent(c, event) ==
    IF ~Has(event) THEN c
    ELSE LET e == Get(event)
             idx == IndexOf(c.state.neighborhoods, e.targetNeighborhood)
         IN  IF e.scope = "global"
             THEN [c EXCEPT !.state.market = applyEventToMarket(@, e)]
             ELSE IF e.scope = "neighborhood" /\ idx # 0
             THEN [c EXCEPT !.state.neighborhoods[idx] = applyEventToNeighborhood(@, e)]
             ELSE c

RECURSIVE NeighborhoodLoop(_, _)
NeighborhoodLoop(c, i) ==
    IF i > Len(c.state.neighborhoods) THEN c
    ELSE NeighborhoodLoop(
             [c EXCEPT !.state.neighborhoods[i] =
                           updateNeighborhoodYear(@, c.state.market, c.rng),
                       !.rng = Draw(c.rng, 4)],
             i + 1)

\* a nextYear that pays the operating cash flow before it handles the matured
\* loans, and updates the neighborhoods before the market
nextYear_Reordered(c) ==
    LET pe == pickEvent(DATA.events, c.rng)
        c1 == Snap(NeighborhoodLoop([c EXCEPT !.state.year = @ + 1,
                                              !.rng = pe.rng,
                                              !.steps = <<[step |-> "start", state |-> c.state,
                                                           rng |-> c.rng, event |-> pe.event]>>],
                                    1),
                   "neighborhoods")
        c2 == Snap([c1 EXCEPT !.state.market = updateMarketYear(@, c1.rng),
                              !.rng = Draw(c1.rng, 3)],
                   "market")
        c3 == Snap(ApplyEvent(c2, pe.event), "event")
        c4 == Snap(updateLeasesOneYear(c3), "leases")
        c5 == Snap(processBuildPhases(c4), "build")
        c6 == Snap(applyOperatingCashFlow(c5), "cashflow")
        c7 == Snap(handleMaturities(c6), "maturities")
    IN  Redraw(Snap(generateListings(c7), "listings"))

\* one year advance; every call it makes leaves a record in steps
nextYear(c) ==
    LET pe == pickEvent(DATA.events, c.rng)
        c1 == Snap([c EXCEPT !.state.year = @ + 1,
                             !.state.market = updateMarketYear(@, pe.rng),
                             !.rng = Draw(pe.rng, 3),
                             !.steps = <<[step |-> "start", state |-> c.state, rng |-> c.rng,
                                          event |-> pe.event]>>],
                   "market")
        c2 == Snap(ApplyEvent(c1, pe.event), "event")
        c3 == Snap(NeighborhoodLoop(c2, 1), "neighborhoods")
        c4 == Snap(updateLeasesOneYear(c3), "leases")
        c5 == Snap(processBuildPhases(c4), "build")
        c6 == Snap(handleMaturities(c5), "maturities")
        c7 == Snap(applyOperatingCashFlow(c6), "cashflow")
    IN  Redraw(Snap(generateListings(c7), "listings"))

\* a makeRng that never reads the seed text
makeRng_IgnoresSeed(seedStr, random) == random

\* makeRng: the generator for a seed text; random is the number Math.random gave
makeRng(seedStr, random) ==
    IF seedStr # <<>> THEN seedFromString(seedStr) ELSE random

\* { ...n, demand: n.baseDemand }
WithDemand(n) ==
    [id |-> n.id, zoning |-> n.zoning, baseDemand |-> n.baseDemand,
     demand |-> n.baseDemand, rentIndex |-> n.rentIndex, vacancy |-> n.vacancy,
     capRate |-> n.capRate, scarcity |-> n.scarcity]

\* a load that leaves the properties of the saved run as they are
EnsureLeases_Skipped(c, i) == c

\* the loop of initRun over the properties of a saved run, from property i
\* on: a property without a lease gets one
RECURSIVE EnsureLeases(_, _)
EnsureLeases(c, i) ==
    IF i > Len(c.state.properties) THEN c
    ELSE IF HasLease(c.state.properties[i]) THEN EnsureLeases(c, i + 1)
    ELSE EnsureLeases(
             [c EXCEPT !.state.properties[i] =
                           initLeaseForProperty(c.state, @, mulberry32(c.rng)),
                       !.rng = mulberry32(c.rng)],
             i + 1)

\* initRun when loadRun returns the run saved, with the generator makeRng returned
initRunSaved(saved, g) ==
    Redraw(generateListings(
               EnsureLeases([state |-> saved, rng |-> g, steps |-> <<>>, dom |-> Null], 1)))

\* initRun when no saved run is loaded, with the generator makeRng returned
initRun(D, sett, g) ==
    LET fresh == [year |-> 1,
                  cash |-> StartCash(sett.difficulty),
                  market |-> [baseRate |-> 450, spread |-> 200, liquidity |-> 7000],
                  neighborhoods |-> [i \in 1..Len(D.neighborhoods) |->
                                        WithDemand(D.neighborhoods[i])],
                  properties |-> <<>>,
                  listings |-> <<>>,
                  activeEvents |-> <<>>,
                  journal |-> <<>>]
    IN  Redraw(generateListings([state |-> fresh, rng |-> g, steps |-> <<>>, dom |-> Null]))

\* ------------------------------------------------------ tycoon.js: hookUI
\* click on a Buy button of the listings panel
WithoutListing(c, id) ==
    LET Other(l) == l.id # id
    IN  [c EXCEPT !.state.listings = SelectSeq(@, Other)]

BuyClick(c, id) ==
    LET idx == IndexOf(c.state.listings, id)
    IN  IF idx = 0 THEN c
        ELSE Redraw(WithoutListing(buyListing(c, c.state.listings[idx]), id))

\* click on a Sell button of the properties panel
SellClick(c, id) == Redraw(sellProperty(c, id))

\* click on a Renovate button of the properties panel
RenoClick(c, id) == Redraw(renovateProperty(c, id))

Handler(c, cmd) ==
    CASE cmd.op = "nextYear" -> nextYear(c)
      [] cmd.op = "buy"      -> BuyClick(c, cmd.id)
      [] cmd.op = "build"    -> startBuild(c, cmd.n, cmd.p)
      [] cmd.op = "reno"     -> RenoClick(c, cmd.id)
      [] cmd.op = "sell"     -> SellClick(c, cmd.id)

\* ------------------------------------------------------ reference data
Neighborhoods ==
    <<[id |-> "downtown", zoning |-> {"office", "multifamily", "hotel"},
       baseDemand |-> 9000, rentIndex |-> 11000, vacancy |-> 600, capRate |-> 450,
       scarcity |-> 6000],
      [id |-> "harbor", zoning |-> {"industrial", "multifamily"},
       baseDemand |-> 5000, rentIndex |-> 7000, vacancy |-> 1200, capRate |-> 700,
       scarcity |-> 1000]>>

ProductTypes ==
    <<[id |-> "office", baseExpenseRatio |-> 4000,
       build |-> [yearsToBuild |-> 2, yearsToStabilize |-> 2, leaseUpVacancy |-> 2500]],
      [id |-> "multifamily", baseExpenseRatio |-> 3500,
       build |-> [yearsToBuild |-> 1, yearsToStabilize |-> 2, leaseUpVacancy |-> 1500]],
      [id |-> "hotel", baseExpenseRatio |-> 5500,
       build |-> [yearsToBuild |-> 1, yearsToStabilize |-> 1, leaseUpVacancy |-> 1000]],
      [id |-> "industrial", baseExpenseRatio |-> 2500,
       build |-> [yearsToBuild |-> 3, yearsToStabilize |-> 1, leaseUpVacancy |-> 1000]]>>

Events ==
    <<[name |-> "Rate shock", scope |-> "global", targetNeighborhood |-> "",
       effects |-> [baseRateDelta |-> 900, spreadDelta |-> 700, liquidityDelta |-> -6000]],
      [name |-> "Easing", scope |-> "global", targetNeighborhood |-> "",
       effects |-> [baseRateDelta |-> -600, liquidityDelta |-> 4000]],
      [name |-> "Downtown boom", scope |-> "neighborhood", targetNeighborhood |-> "downtown",
       effects |-> [demandDelta |-> 5000, rentIndexDelta |-> 8000, vacancyDelta |-> -1000,
                    capRateDelta |-> -200]],
      [name |-> "Harbor slump", scope |-> "neighborhood", targetNeighborhood |-> "harbor",
       effects |-> [demandDelta |-> -4000, vacancyDelta |-> 2800, capRateDelta |-> 600]],
      [name |-> "Elsewhere", scope |-> "neighborhood", targetNeighborhood |-> "uptown",
       effects |-> [demandDelta |-> 1000]],
      [name |-> "Rumour", scope |-> "regional", targetNeighborhood |-> "",
       effects |-> [baseRateDelta |-> 100]]>>

ReferenceData ==
    [neighborhoods |-> Neighborhoods, productTypes |-> ProductTypes, events |-> Events]

\* seed texts of the settings (character codes); the empty text is "no seed"
SeedTexts == {<<1>>, <<2>>}
Difficulties == {"easy", "normal", "hard"}
\* numbers Math.random can give makeRng when there is no seed text
RandomSeeds == {4711, 60123}

\* ------------------------------------------------------ the run
Cur == [state |-> state, rng |-> rng, steps |-> steps, dom |-> dom]

\* a new run, as left by initRun; with twin, a second, independent new run with
\* the same settings and reference data is started beside it
InitWith(seeds, difficulties, twin) ==
    /\ DATA = ReferenceData
    /\ settings \in [seed : seeds, difficulty : difficulties]
    /\ \E random \in RandomSeeds :
          LET c == initRun(DATA, settings, makeRng(settings.seed, random))
          IN  /\ rng = c.rng
              /\ state = c.state
              /\ dom = c.dom
              /\ steps = c.steps
    /\ \E random \in RandomSeeds :
          hist = [commands |-> 0,
                  twin |-> IF twin
                           THEN Some(initRun(DATA, settings, makeRng(settings.seed, random)))
                           ELSE Null]

Init == InitWith(SeedTexts, Difficulties, FALSE)

\* hist after the command cmd: the command is counted, and given to the second
\* run when there is one
Record(h, cmd) ==
    [h EXCEPT !.commands = IF cmd.op = "nextYear" THEN @ ELSE @ + 1,
              !.twin = IF Has(@) THEN Some(Handler(Get(@), cmd)) ELSE @]

\* the handler of command cmd has left the run as c
Do(cmd, c) ==
    /\ state' = c.state
    /\ rng' = c.rng
    /\ dom' = c.dom
    /\ steps' = c.steps
    /\ hist' = Record(hist, cmd)
    /\ UNCHANGED <<DATA, settings>>

\* the player has issued fewer than MaxCmds commands (year advances not counted)
MayCommand == hist.commands < MaxCmds

NextYear ==
    /\ state.year < MaxYear
    /\ Do([op |-> "nextYear"], nextYear(Cur))

BuyListing ==
    \E id \in dom.buy :
        /\ MayCommand
        /\ Len(state.properties) < MaxProps
        /\ Do([op |-> "buy", id |-> id], BuyClick(Cur, id))

StartBuild ==
    \E n \in {DATA.neighborhoods[i].id : i \in 1..Len(DATA.neighborhoods)},
       p \in {DATA.productTypes[i].id : i \in 1..Len(DATA.productTypes)} :
        /\ MayCommand
        /\ Len(state.properties) < MaxProps
        /\ Do([op |-> "build", n |-> n, p |-> p], startBuild(Cur, n, p))

RenovateProperty ==
    \E id \in dom.props :
        /\ MayCommand
        /\ Do([op |-> "reno", id |-> id], RenoClick(Cur, id))

SellProperty ==
    \E id \in dom.props :
        /\ MayCommand
        /\ Do([op |-> "sell", id |-> id], SellClick(Cur, id))

Next ==
    \/ NextYear
    \/ BuyListing
    \/ StartBuild
    \/ RenovateProperty
    \/ SellProperty

Spec == Init /\ [][Next]_vars

\* ------------------------------------------------------ two runs
\* seed texts of the two-run specification: a seed, and no seed
SeedOrNone == {<<1>>, <<>>}

InitTwoRuns == InitWith(SeedOrNone, {"normal"}, TRUE)

\* two independent new runs, given the same commands
SpecTwoRuns == InitTwoRuns /\ [][Next]_vars

Twin == Get(hist.twin)

\* C1: with a seed text in the settings, two independent new runs given the
\* same sequence of commands are in the same state after every command (year,
\* cash, market, neighborhoods, properties, listings, journal).
C1_Deterministic ==
    settings.seed # <<>> => Twin.state = state

\* two seeded runs have been through a build, a purchase and two year advances
C1_Witness ==
    /\ settings.seed # <<>>
    /\ state.year >= 3
    /\ \E i \in 1..Len(state.journal) : state.journal[i].action = "BUILD"
    /\ \E i \in 1..Len(state.journal) : state.journal[i].action = "BUY"
    /\ Len(state.properties) >= 1
    /\ Len(Twin.state.properties) >= 1

\* without a seed text the two runs need not agree
C1_SameWithoutSeed == Twin.state = state

\* ------------------------------------------------------ market evolution alone
\* generator states the yearly updates draw from
Generators == {0, 9001, 30011, 52223}

Big == 5 * S

\* effects of market events: every delta far below or far above the domain, a
\* small move, one field only, none
MarketEffects ==
    [baseRateDelta : {-Big, Big}, spreadDelta : {-Big, Big}, liquidityDelta : {-Big, Big}]
    \cup {[baseRateDelta |-> 25, spreadDelta |-> -10, liquidityDelta |-> 300],
          [spreadDelta |-> Big]}

NeighborhoodEffects ==
    {[demandDelta |-> -Big, rentIndexDelta |-> -Big, vacancyDelta |-> -Big, capRateDelta |-> -Big],
     [demandDelta |-> Big, rentIndexDelta |-> Big, vacancyDelta |-> Big, capRateDelta |-> Big],
     [demandDelta |-> 300, rentIndexDelta |-> -200, vacancyDelta |-> 150, capRateDelta |-> -40],
     [vacancyDelta |-> Big],
     [capRateDelta |-> -Big, rentIndexDelta |-> Big]}

\* one more update of the market or of a neighborhood has left the run in state st
Evolved(st) ==
    /\ state' = st
    /\ hist' = [hist EXCEPT !.commands = @ + 1]
    /\ UNCHANGED <<DATA, settings, rng, dom, steps>>

MarketYear ==
    /\ MayCommand
    /\ \E g \in Generators :
        Evolved([state EXCEPT !.market = updateMarketYear(@, g)])

MarketEvent ==
    /\ MayCommand
    /\ \E e \in MarketEffects :
        Evolved([state EXCEPT !.market = applyEventToMarket(@, [effects |-> e])])

NeighborhoodYear ==
    /\ MayCommand
    /\ \E i \in 1..Len(state.neighborhoods), g \in Generators :
        Evolved([state EXCEPT !.neighborhoods[i] = updateNeighborhoodYear(@, state.market, g)])

NeighborhoodEvent ==
    /\ MayCommand
    /\ \E i \in 1..Len(state.neighborhoods), e \in NeighborhoodEffects :
        Evolved([state EXCEPT !.neighborhoods[i] = applyEventToNeighborhood(@, [effects |-> e])])

NextMarket ==
    \/ MarketYear
    \/ MarketEvent
    \/ NeighborhoodYear
    \/ NeighborhoodEvent

\* the market and the neighborhoods of a new run, updated in any order
SpecMarket == InitWith({<<1>>}, {"normal"}, FALSE) /\ [][NextMarket]_vars

MarketInBounds(m) ==
    /\ 0 <= m.baseRate /\ m.baseRate <= 1200
    /\ 0 <= m.spread /\ m.spread <= 800
    /\ 2000 <= m.liquidity /\ m.liquidity <= 10000

NeighborhoodInBounds(n) ==
    /\ 2000 <= n.demand /\ n.demand <= 12000
    /\ 6000 <= n.rentIndex /\ n.rentIndex <= 18000
    /\ 100 <= n.vacancy /\ n.vacancy <= 3500
    /\ 300 <= n.capRate /\ n.capRate <= 1200

\* C2: after every updateMarketYear and every applyEventToMarket, whatever the
\* draws and the event deltas, baseRate is in [0, 0.12], spread in [0, 0.08]
\* and liquidity in [0.2, 1.0].
C2_MarketInBounds == MarketInBounds(state.market)

\* the same in the run: in every state, and after the market and the event
\* steps of every year advance
C2_MarketInBoundsInRun ==
    /\ MarketInBounds(state.market)
    /\ \A k \in 1..Len(steps) : MarketInBounds(steps[k].state.market)

\* an event delta and a yearly update have both been held at a bound
C2_Witness ==
    /\ hist.commands >= 2
    /\ state.market.baseRate = 1200
    /\ state.market.spread = 0
    /\ state.market.liquidity \notin {2000, 7000, 10000}

\* C3: after every updateNeighborhoodYear and every applyEventToNeighborhood,
\* whatever the draws and the event deltas, each neighborhood has demand in
\* [0.2, 1.2], rentIndex in [0.6, 1.8], vacancy in [0.01, 0.35] and capRate in
\* [0.03, 0.12].
C3_NeighborhoodsInBounds ==
    \A i \in 1..Len(state.neighborhoods) : NeighborhoodInBounds(state.neighborhoods[i])

\* a neighborhood event was held at the bounds and a yearly update followed it
C3_Witness ==
    /\ hist.commands >= 2
    /\ \E i \in 1..Len(state.neighborhoods) :
          /\ state.neighborhoods[i].vacancy = 3500
          /\ state.neighborhoods[i].capRate = 300
          /\ state.neighborhoods[i].demand # Neighborhoods[i].baseDemand


\* C4: in every state reachable from a new run by year advances and player
\* commands (buy, build, renovate, sell), the cash balance is never negative.
C4_CashNeverNegative == state.cash >= 0


\* ------------------------------------------------------ the refinance wall
\* the entries of steps that record one matured loan handled
MaturityEntries == {k \in 1..Len(steps) : steps[k].step = "maturity"}

\* the property with this id in state st
PropertyOf(st, id) == st.properties[IndexOf(st.properties, id)]

\* value x target LTV of the property of entry e, before it was handled
NewLoanAt(e) ==
    Max(0, (computePropertySnapshot(e.before, PropertyOf(e.before, e.id)).value
            * Ltv(PropertyOf(e.before, e.id))) \div S)

\* the refinance of entry e cannot be done: the new loan is below the balance
\* and cash is below the shortfall
RefiMustFail(e) ==
    /\ NewLoanAt(e) < PropertyOf(e.before, e.id).loanBalance
    /\ e.before.cash < PropertyOf(e.before, e.id).loanBalance - NewLoanAt(e)

\* cash plus the net proceeds of selling the property of entry e
CashAfterSale(e) ==
    e.before.cash
    + SaleNet(computePropertySnapshot(e.before, PropertyOf(e.before, e.id)).value,
              PropertyOf(e.before, e.id).loanBalance)

\* C5: during a year advance, a property whose loan has matured, whose new
\* loan (value x target LTV) is below its balance and for which cash is below
\* the shortfall, is sold in that year advance and is no longer among the
\* properties; right after the forced sale cash is >= 0, and exactly 0 when
\* cash plus net sale proceeds was negative.
C5_ForcedSale ==
    \A k \in MaturityEntries :
        (IsMatured(steps[k].before, PropertyOf(steps[k].before, steps[k].id))
         /\ RefiMustFail(steps[k]))
        => /\ ~steps[k].ok
           /\ IndexOf(steps[k].state.properties, steps[k].id) = 0
           /\ IndexOf(state.properties, steps[k].id) = 0
           /\ \E j \in 1..Len(steps[k].state.journal) :
                 /\ steps[k].state.journal[j].action = "SELL"
                 /\ steps[k].state.journal[j].target = steps[k].id
                 /\ steps[k].state.journal[j].year = steps[k].before.year
           /\ steps[k].state.cash >= 0
           /\ (CashAfterSale(steps[k]) < 0 => steps[k].state.cash = 0)
           /\ (CashAfterSale(steps[k]) >= 0 => steps[k].state.cash = CashAfterSale(steps[k]))

\* a forced sale whose proceeds did not cover the loan: cash was reset to 0
C5_Witness ==
    \E k \in MaturityEntries :
        /\ RefiMustFail(steps[k])
        /\ ~steps[k].ok
        /\ CashAfterSale(steps[k]) < 0
        /\ steps[k].state.cash = 0

\* a forced sale that left cash above 0
C5_WitnessProceeds ==
    \E k \in MaturityEntries :
        /\ RefiMustFail(steps[k])
        /\ ~steps[k].ok
        /\ steps[k].state.cash > 0


\* the cash balance entry e leaves when its refinance is done
CashAfterRefi(e) ==
    e.before.cash + NewLoanAt(e) - PropertyOf(e.before, e.id).loanBalance

\* entry e, handled right after entry prev, started from the state prev left
\* and its refinance was tested against, and settled in, that cash balance
HandledAfter(prev, e) ==
    /\ e.before = prev.state
    /\ e.ok = ~RefiMustFail(e)
    /\ e.state.cash = IF e.ok THEN CashAfterRefi(e) ELSE Max(0, CashAfterSale(e))

\* C6: when several loans mature in the same year they are handled one at a
\* time, and the cash test of a later property's refinance uses the cash
\* balance as the earlier properties' cash-out refinances, paid-in shortfalls
\* and forced sales (with the floor at 0) of that year left it.
C6_SequentialMaturities ==
    \A k \in MaturityEntries :
        (k + 1) \in MaturityEntries => HandledAfter(steps[k], steps[k + 1])

\* two loans matured in one year, the first changed the cash balance, and the
\* second one's new loan was below its balance, so that the changed cash
\* balance was tested against its shortfall
C6_Witness ==
    \E k \in MaturityEntries :
        /\ (k + 1) \in MaturityEntries
        /\ steps[k].state.cash # steps[k].before.cash
        /\ NewLoanAt(steps[k + 1]) < PropertyOf(steps[k + 1].before, steps[k + 1].id).loanBalance

\* ------------------------------------------------------ the order of a year
\* the run as the recorded step e left it
Ctx(e) == [state |-> e.state, rng |-> e.rng, steps |-> <<>>, dom |-> dom]

\* the recorded step e is what the call that returned c left
Left(e, c) == e.state = c.state /\ e.rng = c.rng

\* the names of the steps of a year advance in which n matured loans were handled
StepOrder(n) ==
    <<"start", "market", "event", "neighborhoods", "leases", "build">>
    \o [k \in 1..n |-> "maturity"]
    \o <<"maturities", "cashflow", "listings">>

\* the year's operating cash flow, had it been computed on the run as step e left it
CashFlowOn(e) == applyOperatingCashFlow(Ctx(e)).state.cash - e.state.cash

\* C7: one nextYear call applies its state changes in this order: market
\* update, event deltas, every neighborhood update, lease update of every
\* property, build and lease-up phases, maturing loans, operating cash flow and
\* amortization, new listings. Each neighborhood update reads the market values
\* already updated in the same year, and the operating cash flow is computed
\* after that year's refinances and forced sales.
C7_YearOrder ==
    steps # <<>> =>
        /\ Len(steps) >= 9
        /\ [k \in 1..Len(steps) |-> steps[k].step] = StepOrder(Len(steps) - 9)
        /\ steps[2].state = [steps[1].state EXCEPT
                               !.year = @ + 1,
                               !.market = updateMarketYear(@, pickEvent(DATA.events, steps[1].rng).rng)]
        /\ Left(steps[3], ApplyEvent(Ctx(steps[2]), steps[1].event))
        /\ \A i \in 1..Len(steps[4].state.neighborhoods) :
              steps[4].state.neighborhoods[i] =
                  updateNeighborhoodYear(steps[3].state.neighborhoods[i], steps[3].state.market,
                                         Draw(steps[3].rng, 4 * (i - 1)))
        /\ Left(steps[4], NeighborhoodLoop(Ctx(steps[3]), 1))
        /\ Left(steps[5], updateLeasesOneYear(Ctx(steps[4])))
        /\ Left(steps[6], processBuildPhases(Ctx(steps[5])))
        /\ Left(steps[Len(steps) - 2], handleMaturities(Ctx(steps[6])))
        /\ Left(steps[Len(steps) - 1], applyOperatingCashFlow(Ctx(steps[Len(steps) - 2])))
        /\ Left(steps[Len(steps)], generateListings(Ctx(steps[Len(steps) - 1])))

\* a year in which the order shows: an event moved the market, a neighborhood
\* updated with the market of the year before would have come out differently,
\* and a matured loan was handled whose outcome changed the year's cash flow
C7_Witness ==
    /\ steps # <<>>
    /\ Has(steps[1].event)
    /\ steps[3].state.market # steps[2].state.market
    /\ \E i \in 1..Len(steps[4].state.neighborhoods) :
          steps[4].state.neighborhoods[i] #
              updateNeighborhoodYear(steps[3].state.neighborhoods[i], steps[1].state.market,
                                     Draw(steps[3].rng, 4 * (i - 1)))
    /\ Len(steps) > 9
    /\ steps[Len(steps) - 1].state.cash - steps[Len(steps) - 2].state.cash # CashFlowOn(steps[6])


\* ------------------------------------------------------ the life of a build
\* the properties started by startBuild
IsBuilt(p) == p.id.kind = "B"

\* year advances since the build of p was started
Age(st, p) == st.year - p.id.year

YearsToBuild(p) == Product(p.productType).build.yearsToBuild
YearsToStabilize(p) == Product(p.productType).build.yearsToStabilize

\* the phase p is in, as the number of year advances since its start has it
PhaseByAge(st, p) ==
    IF Age(st, p) < YearsToBuild(p)
    THEN /\ Has(p.build)
         /\ Get(p.build).phase = "construction"
         /\ Get(p.build).yearsRemaining = YearsToBuild(p) - Age(st, p)
         /\ Get(p.build).stabilizeYearsRemaining = YearsToStabilize(p)
    ELSE IF Age(st, p) < YearsToBuild(p) + YearsToStabilize(p)
    THEN /\ Has(p.build)
         /\ Get(p.build).phase = "leaseup"
         /\ Get(p.build).stabilizeYearsRemaining
                = YearsToBuild(p) + YearsToStabilize(p) - Age(st, p)
    ELSE ~Has(p.build)

\* C8: a built property's phase only moves forward, construction -> leaseup ->
\* stabilized (build record cleared); it never goes back or skips lease-up; a
\* property started with yearsToBuild = b >= 1 and yearsToStabilize = s >= 1
\* that is not sold is stabilized after exactly b + s year advances, and no
\* year advance performs both transitions for the same property.
C8_PhasesForward ==
    \A i \in 1..Len(state.properties) :
        IF IsBuilt(state.properties[i])
        THEN PhaseByAge(state, state.properties[i])
        ELSE ~Has(state.properties[i].build)

\* construction 1, lease-up 2, stabilized 3
PhaseNumber(p) ==
    IF ~Has(p.build) THEN 3 ELSE IF Get(p.build).phase = "leaseup" THEN 2 ELSE 1

\* the same as C8, as steps of the run: the phase of a property that stays in
\* the portfolio is kept or moved one phase forward, never two, and only a
\* year advance moves it
C8_OnePhaseAYear ==
    [][\A i \in 1..Len(state.properties) :
          \A j \in 1..Len(state'.properties) :
              state.properties[i].id = state'.properties[j].id
              => /\ PhaseNumber(state'.properties[j]) >= PhaseNumber(state.properties[i])
                 /\ PhaseNumber(state'.properties[j]) <= PhaseNumber(state.properties[i]) + 1
                 /\ (state'.year = state.year
                     => PhaseNumber(state'.properties[j]) = PhaseNumber(state.properties[i]))]_vars

\* a build whose construction and lease-up take four years together, stabilized
\* by the year advance that is its fourth and still in lease-up before it
C8_Witness ==
    \E i \in 1..Len(state.properties) :
        /\ IsBuilt(state.properties[i])
        /\ YearsToBuild(state.properties[i]) + YearsToStabilize(state.properties[i]) = 4
        /\ Age(state, state.properties[i]) = 4
        /\ ~Has(state.properties[i].build)
        /\ steps # <<>>
        /\ steps[Len(steps)].state = state
        /\ Has(PropertyOf(steps[5].state, state.properties[i].id).build)
        /\ Get(PropertyOf(steps[5].state, state.properties[i].id).build).phase = "leaseup"


\* C9: in every reachable state in which a property is in the lease-up phase
\* (build.phase = "leaseup"), its vacancyDelta is at least the product's
\* leaseUpVacancy, including in the year it is delivered from construction and
\* after a renovation during lease-up.
C9_LeaseUpVacancyHeld ==
    \A i \in 1..Len(state.properties) :
        (Has(state.properties[i].build) /\ Get(state.properties[i].build).phase = "leaseup")
        => state.properties[i].vacancyDelta >= Get(state.properties[i].build).leaseUpVacancy

\* C9 in the states where the claim fails by delivery alone: a property just
\* delivered from construction, not renovated, with the vacancyDelta it was
\* started with
C9_DeliveredBelowLeaseUpVacancy ==
    \E i \in 1..Len(state.properties) :
        /\ Has(state.properties[i].build)
        /\ Get(state.properties[i].build).phase = "leaseup"
        /\ Age(state, state.properties[i]) = YearsToBuild(state.properties[i])
        /\ state.properties[i].renoLevel = 0
        /\ state.properties[i].vacancyDelta = 0
        /\ Get(state.properties[i].build).leaseUpVacancy > 0

\* a renovation in a later lease-up year has taken vacancyDelta below leaseUpVacancy
C9_RenovatedBelowLeaseUpVacancy ==
    \E i \in 1..Len(state.properties) :
        /\ Has(state.properties[i].build)
        /\ Get(state.properties[i].build).phase = "leaseup"
        /\ Age(state, state.properties[i]) > YearsToBuild(state.properties[i])
        /\ state.properties[i].renoLevel > 0
        /\ state.properties[i].vacancyDelta < Get(state.properties[i].build).leaseUpVacancy


\* ------------------------------------------------------ stabilization
\* property p leaves lease-up in the build step of this year advance
Stabilizing(p) ==
    /\ Has(p.build)
    /\ Get(p.build).phase = "leaseup"
    /\ Get(p.build).stabilizeYearsRemaining - 1 <= 0

\* baseRate + spread + 0.018 + r * 0.01 held in [0.04, 0.16], for a draw r
IsPermRate(rate, market) ==
    /\ rate >= clamp(market.baseRate + market.spread + 180, 400, 1600)
    /\ rate <= clamp(market.baseRate + market.spread + 280, 400, 1600)

\* q is p as its stabilization in state st has to leave it
StabilizedFrom(st, p, q) ==
    /\ ~Has(q.build)
    /\ q.vacancyDelta = 0
    /\ ~q.interestOnly
    /\ q.amortYears = 30
    /\ IsPermRate(q.loanRate, st.market)
    /\ q.maturityYear \in {st.year + 5, st.year + 7, st.year + 10}
    /\ HasLease(q)
    /\ Get(q.lease).leaseRentIndex = MarketRentIndex(st, q)
    /\ Get(q.lease).rollPct = LEASE_RULES(q.productType).rollPct
    /\ Get(q.lease).yearsRemaining \in
           LEASE_RULES(q.productType).termMin..LEASE_RULES(q.productType).termMax
    /\ q.loanBalance = p.loanBalance
    /\ q.rentIndexMult = p.rentIndexMult

\* C10: when a property's stabilizeYearsRemaining reaches <= 0 in lease-up,
\* the same step clears the build record, sets vacancyDelta to 0, sets
\* interestOnly = false and amortYears = 30, assigns a new loan rate, sets
\* maturityYear to the current year + a drawn balloon term, and (re)initializes
\* the lease with leaseRentIndex equal to the current market rent index;
\* loanBalance is left unchanged.
C10_Stabilization ==
    steps # <<>> =>
        \A i \in 1..Len(steps[5].state.properties) :
            Stabilizing(steps[5].state.properties[i])
            => /\ Len(steps[6].state.properties) = Len(steps[5].state.properties)
               /\ steps[6].state.properties[i].id = steps[5].state.properties[i].id
               /\ StabilizedFrom(steps[6].state, steps[5].state.properties[i],
                                 steps[6].state.properties[i])

\* a property was stabilized in the latest year advance: it came with a
\* lease-up vacancy, an interest-only loan and a lease below the market
C10_Witness ==
    /\ steps # <<>>
    /\ \E i \in 1..Len(steps[5].state.properties) :
          /\ Stabilizing(steps[5].state.properties[i])
          /\ steps[5].state.properties[i].vacancyDelta > 0
          /\ steps[5].state.properties[i].interestOnly
          /\ steps[5].state.properties[i].loanBalance > 0
          /\ HasLease(steps[5].state.properties[i])
          /\ Get(steps[5].state.properties[i].lease).leaseRentIndex
                 # MarketRentIndex(steps[5].state, steps[5].state.properties[i])
          /\ ~Has(steps[6].state.properties[i].build)


\* ------------------------------------------------------ balloon terms
\* the balloon term for a draw r: 5 below 0.45, 7 from 0.45 to below 0.75, else 10
TermOfDraw(r) ==
    IF r * 100 < 45 * RngMod THEN 5
    ELSE IF r * 100 >= 45 * RngMod /\ r * 100 < 75 * RngMod THEN 7
    ELSE 10

\* property q is not in st: the step has added it
IsNewIn(st, q) == IndexOf(st.properties, q.id) = 0

\* the step from st has given q its maturityYear by a purchase, a stabilization
\* or a refinance (startBuild gives a construction loan its own term)
MaturityAssigned(st, q) ==
    IF IsNewIn(st, q) THEN ~IsBuilt(q)
    ELSE PropertyOf(st, q.id).maturityYear # q.maturityYear

\* C11: the maturity draw returns 5 when the draw r < 0.45, 7 when
\* 0.45 <= r < 0.75 and 10 otherwise; every maturityYear assigned by a
\* purchase, a stabilization or a successful refinance is the current year
\* plus 5, 7 or 10, hence later than the current year.
C11_MaturityTerms ==
    [][\A j \in 1..Len(state'.properties) :
          MaturityAssigned(state, state'.properties[j])
          => /\ state'.properties[j].maturityYear
                    \in {state'.year + 5, state'.year + 7, state'.year + 10}
             /\ state'.properties[j].maturityYear > state'.year
             /\ IsNewIn(state, state'.properties[j])
                => state'.properties[j].maturityYear
                       = state.year + TermOfDraw(mulberry32(rng))]_vars

\* a purchase whose draw fell in the 7-year band, next to a built property
\* that was given its term at stabilization
C11_Witness ==
    /\ \E i \in 1..Len(state.properties) :
          /\ ~IsBuilt(state.properties[i])
          /\ state.properties[i].maturityYear = state.properties[i].id.year + 7
    /\ \E i \in 1..Len(state.properties) :
          /\ IsBuilt(state.properties[i])
          /\ ~Has(state.properties[i].build)
          /\ state.properties[i].maturityYear > state.year

\* a purchase with a 5-year term and one with a 10-year term
C11_WitnessFiveAndTen ==
    /\ \E i \in 1..Len(state.properties) :
          /\ ~IsBuilt(state.properties[i])
          /\ state.properties[i].maturityYear = state.properties[i].id.year + 5
    /\ \E i \in 1..Len(state.properties) :
          /\ ~IsBuilt(state.properties[i])
          /\ state.properties[i].maturityYear = state.properties[i].id.year + 10

\* a matured loan refinanced and given a new term
C11_WitnessRefinanced ==
    \E k \in MaturityEntries :
        /\ steps[k].ok
        /\ PropertyOf(steps[k].state, steps[k].id).maturityYear > steps[k].state.year


\* ------------------------------------------------------ leases alone
\* a stabilized property of product type t in the first neighborhood, with
\* the given rent premium and lease (Null: none yet)
OwnedProperty(t, mult, lease) ==
    [id |-> PropertyId([kind |-> "L", year |-> 1, i |-> 0, n |-> 0]),
     neighborhood |-> Neighborhoods[1].id,
     productType |-> t,
     baseNOI |-> 650,
     rentIndexMult |-> mult,
     vacancyDelta |-> 0,
     capRateDelta |-> 0,
     renoLevel |-> 0,
     ltv |-> 6500,
     loanBalance |-> 5000,
     loanRate |-> 700,
     amortYears |-> 30,
     interestOnly |-> FALSE,
     maturityYear |-> 8,
     build |-> Null,
     lease |-> lease]

\* leases in every stage of their term, sticky to fully marked to market, with
\* in-place rents below and above the market
LeaseInputs ==
    [yearsRemaining : {1, 2, 3}, rollPct : {800, 5500, S}, leaseRentIndex : {9000, 2 * S}]

\* portfolios of one leased property, and one whose property has no lease yet
LeasePortfolios ==
    {<<OwnedProperty(t, S, Some(l))>> : t \in {"hotel", "office"}, l \in LeaseInputs}
    \cup {<<OwnedProperty("multifamily", 10900, Null)>>}

\* the run starts as c
StartsAs(c) ==
    /\ state = c.state
    /\ rng = c.rng
    /\ dom = c.dom
    /\ steps = <<>>
    /\ hist = [commands |-> 0, twin |-> Null]

InitLeases ==
    /\ DATA = ReferenceData
    /\ settings = [seed |-> <<1>>, difficulty |-> "normal"]
    /\ \E props \in LeasePortfolios :
          StartsAs(Redraw([initRun(ReferenceData, [seed |-> <<1>>, difficulty |-> "normal"],
                                   makeRng(<<1>>, 0))
                           EXCEPT !.state.properties = props]))

\* the yearly lease update has left the run as c
LeasesUpdated(c) ==
    /\ state' = c.state
    /\ rng' = c.rng
    /\ steps' = c.steps
    /\ hist' = [hist EXCEPT !.commands = @ + 1]
    /\ UNCHANGED <<DATA, settings, dom>>

\* updateLeasesOneYear, recorded in steps as nextYear records it
LeaseYear ==
    /\ MayCommand
    /\ LeasesUpdated(Snap(updateLeasesOneYear(Snap([Cur EXCEPT !.steps = <<>>],
                                                   "neighborhoods")),
                          "leases"))

NextLeases ==
    \/ LeaseYear
    \/ NeighborhoodYear

\* lease updates on a portfolio of leased properties, between neighborhood updates
SpecLeases == InitLeases /\ [][NextLeases]_vars

\* the records of steps that a yearly lease update left
LeaseEntries == {k \in 2..Len(steps) : steps[k].step = "leases"}

\* C12: for a property whose lease has rollPct = 1.0, after every yearly lease
\* update leaseRentIndex equals the current market rent index (neighborhood
\* rentIndex x rentIndexMult), whatever yearsRemaining is.
C12_FullRollIsMarket ==
    \A k \in LeaseEntries :
        \A i \in 1..Len(steps[k - 1].state.properties) :
            (HasLease(steps[k - 1].state.properties[i])
             /\ Get(steps[k - 1].state.properties[i].lease).rollPct = S)
            => Get(steps[k].state.properties[i].lease).leaseRentIndex
                   = MarketRentIndex(steps[k].state, steps[k].state.properties[i])

\* a lease with rollPct = 1.0 and more than one year left, whose in-place rent
\* was off the market, has been updated
C12_Witness ==
    \E k \in LeaseEntries :
        \E i \in 1..Len(steps[k - 1].state.properties) :
            /\ HasLease(steps[k - 1].state.properties[i])
            /\ Get(steps[k - 1].state.properties[i].lease).rollPct = S
            /\ Get(steps[k - 1].state.properties[i].lease).yearsRemaining > 1
            /\ Get(steps[k - 1].state.properties[i].lease).leaseRentIndex
                   # MarketRentIndex(steps[k - 1].state, steps[k - 1].state.properties[i])
            /\ Get(steps[k].state.properties[i].lease).yearsRemaining >= 1


\* leaseRentIndex x (1 - roll) + marketRentIndex x roll, roll held in [0, 1]
Blend(leaseRentIndex, marketRentIndex, rollPct) ==
    (leaseRentIndex * (S - clamp(rollPct, 0, S)) + marketRentIndex * clamp(rollPct, 0, S)) \div S

\* lease after is what a yearly update makes of lease before, for a property
\* of product type t at market rent index m
LeaseRolled(before, after, t, m) ==
    /\ after.rollPct = before.rollPct
    /\ IF before.yearsRemaining - 1 <= 0
       THEN /\ after.yearsRemaining \in LEASE_RULES(t).termMin..LEASE_RULES(t).termMax
            /\ after.leaseRentIndex = m
       ELSE /\ after.yearsRemaining = before.yearsRemaining - 1
            /\ after.leaseRentIndex = Blend(before.leaseRentIndex, m, before.rollPct)
    /\ after.yearsRemaining >= 1

\* C13: for a property with an existing lease, each yearly lease update first
\* blends leaseRentIndex toward market by rollPct, then decrements
\* yearsRemaining; when it reaches <= 0 the term is redrawn as an integer
\* within the product type's [termMin, termMax] and leaseRentIndex is set
\* exactly to the current market rent index; so yearsRemaining >= 1 after
\* every update.
C13_LeaseUpdate ==
    \A k \in LeaseEntries :
        \A i \in 1..Len(steps[k - 1].state.properties) :
            HasLease(steps[k - 1].state.properties[i])
            => /\ HasLease(steps[k].state.properties[i])
               /\ LeaseRolled(Get(steps[k - 1].state.properties[i].lease),
                              Get(steps[k].state.properties[i].lease),
                              steps[k].state.properties[i].productType,
                              MarketRentIndex(steps[k].state, steps[k].state.properties[i]))

\* an office lease in its last year, its rent off the market, renewed for a
\* term of several years at the market rent
C13_Witness ==
    \E k \in LeaseEntries :
        \E i \in 1..Len(steps[k - 1].state.properties) :
            /\ HasLease(steps[k - 1].state.properties[i])
            /\ Get(steps[k - 1].state.properties[i].lease).yearsRemaining = 1
            /\ Get(steps[k - 1].state.properties[i].lease).rollPct < S
            /\ Get(steps[k - 1].state.properties[i].lease).leaseRentIndex
                   # MarketRentIndex(steps[k].state, steps[k].state.properties[i])
            /\ Get(steps[k].state.properties[i].lease).yearsRemaining >= 5

\* a lease with years left was blended toward the market and not to it
C13_WitnessBlended ==
    \E k \in LeaseEntries :
        \E i \in 1..Len(steps[k - 1].state.properties) :
            /\ HasLease(steps[k - 1].state.properties[i])
            /\ Get(steps[k - 1].state.properties[i].lease).yearsRemaining > 1
            /\ Get(steps[k].state.properties[i].lease).leaseRentIndex
                   # MarketRentIndex(steps[k].state, steps[k].state.properties[i])
            /\ Get(steps[k].state.properties[i].lease).leaseRentIndex
                   # Get(steps[k - 1].state.properties[i].lease).leaseRentIndex


\* ------------------------------------------------------ refinancing
\* q is property p refinanced to newLoan in year y
RefinancedTo(p, q, newLoan, y) ==
    /\ q.loanBalance = newLoan
    /\ ~q.interestOnly
    /\ q.amortYears = 30
    /\ q.maturityYear > y
    /\ q.maturityYear \in {y + 5, y + 7, y + 10}
    /\ q.build = p.build
    /\ q.lease = p.lease
    /\ q.ltv = p.ltv

\* the refinance of entry e went through: cash moved by d, and only the
\* refinanced property differs
RefiDone(e, d) ==
    /\ e.ok
    /\ e.refi.cash = e.before.cash + d
    /\ Len(e.refi.properties) = Len(e.before.properties)
    /\ \A i \in 1..Len(e.before.properties) :
          IF e.before.properties[i].id = e.id
          THEN RefinancedTo(e.before.properties[i], e.refi.properties[i],
                            NewLoanAt(e), e.before.year)
          ELSE e.refi.properties[i] = e.before.properties[i]
    /\ e.state = e.refi

\* C14: when a matured loan is refinanced, the new loan is value x target LTV;
\* if it is >= the outstanding balance the surplus is added to cash, otherwise
\* the shortfall is deducted from cash only if cash >= shortfall; in both
\* successful cases the property afterwards has loanBalance = new loan,
\* interestOnly = false, amortYears = 30 and a maturityYear later than the
\* current year, and when cash < shortfall nothing of the property or cash is
\* changed by the refinance attempt.
C14_Refinance ==
    \A k \in MaturityEntries :
        IF NewLoanAt(steps[k]) >= PropertyOf(steps[k].before, steps[k].id).loanBalance
           \/ steps[k].before.cash
                >= PropertyOf(steps[k].before, steps[k].id).loanBalance - NewLoanAt(steps[k])
        THEN RefiDone(steps[k],
                      NewLoanAt(steps[k]) - PropertyOf(steps[k].before, steps[k].id).loanBalance)
        ELSE ~steps[k].ok /\ steps[k].refi = steps[k].before

\* a refinance below the balance, the shortfall paid from cash
C14_Witness ==
    \E k \in MaturityEntries :
        /\ steps[k].ok
        /\ NewLoanAt(steps[k]) < PropertyOf(steps[k].before, steps[k].id).loanBalance
        /\ steps[k].refi.cash < steps[k].before.cash
        /\ steps[k].refi.cash >= 0

\* a cash-out refinance
C14_WitnessCashOut ==
    \E k \in MaturityEntries :
        /\ steps[k].ok
        /\ NewLoanAt(steps[k]) > PropertyOf(steps[k].before, steps[k].id).loanBalance
        /\ steps[k].refi.cash > steps[k].before.cash

\* a refinance that could not be funded, with cash in hand
C14_WitnessFailed ==
    \E k \in MaturityEntries :
        /\ ~steps[k].ok
        /\ steps[k].before.cash > 0
        /\ steps[k].refi = steps[k].before
        /\ steps[k].state # steps[k].before


\* ------------------------------------------------------ direct calls
\* the properties of the direct-call specification: a stabilized office in the
\* first neighborhood, renovated r times, with this rent multiplier, vacancy
\* delta and in-place lease rent index
CallOffice(r, mult, vd, index) ==
    [OwnedProperty("office", mult,
                   Some([yearsRemaining |-> 3, rollPct |-> 800, leaseRentIndex |-> index]))
     EXCEPT !.renoLevel = r, !.vacancyDelta = vd]

\* an office built in year 1, in lease-up in year 4 at the product's lease-up
\* vacancy, as processBuildPhases holds it
CallLeaseUp ==
    [OwnedProperty("office", S, Null)
     EXCEPT !.id = [kind |-> "B", year |-> 1, i |-> 0, n |-> 0],
            !.interestOnly = TRUE,
            !.vacancyDelta = Product("office").build.leaseUpVacancy,
            !.build = Some([phase |-> "leaseup",
                            yearsRemaining |-> 0,
                            stabilizeYearsRemaining |-> 1,
                            leaseUpVacancy |-> Product("office").build.leaseUpVacancy])]

CallPortfolios ==
    {<<CallOffice(r, mult, vd, index)>> :
        r \in {0, 3}, mult \in {S, 13400}, vd \in {0, -780}, index \in {11000, 19900, 21000}}
    \cup {<<CallLeaseUp>>}

\* cash of the direct-call specification in $K: too little for a renovation,
\* and enough for one and for the equity of a cheap build
CallCash == {100, 3000}

\* an id that no property of the portfolio has
UnknownId == [kind |-> "P", year |-> 1, i |-> 9, n |-> 0]

InitCalls ==
    /\ DATA = ReferenceData
    /\ settings = [seed |-> <<1>>, difficulty |-> "normal"]
    /\ \E props \in CallPortfolios, cash \in CallCash :
          StartsAs(Redraw([initRun(ReferenceData, [seed |-> <<1>>, difficulty |-> "normal"],
                                   makeRng(<<1>>, 0))
                           EXCEPT !.state.properties = props,
                                  !.state.cash = cash,
                                  !.state.year = 4]))

\* the call cmd, made on the run before, has left the run as c; steps keeps the
\* call and the run it was made on
Called(cmd, before, c) ==
    /\ state' = c.state
    /\ rng' = c.rng
    /\ dom' = c.dom
    /\ steps' = <<[step |-> "call", cmd |-> cmd, state |-> before.state, rng |-> before.rng]>>
    /\ hist' = [hist EXCEPT !.commands = @ + 1]
    /\ UNCHANGED <<DATA, settings>>

\* the ids a call may name: those of the properties owned, and an unknown one
CallIds == {state.properties[i].id : i \in 1..Len(state.properties)} \cup {UnknownId}

CallSell ==
    /\ MayCommand
    /\ \E id \in CallIds :
          Called([op |-> "sell", id |-> id], Cur, Handler(Cur, [op |-> "sell", id |-> id]))

CallRenovate ==
    /\ MayCommand
    /\ \E id \in CallIds :
          Called([op |-> "reno", id |-> id], Cur, Handler(Cur, [op |-> "reno", id |-> id]))

CallBuild ==
    /\ MayCommand
    /\ Len(state.properties) < MaxProps
    /\ \E n \in {DATA.neighborhoods[i].id : i \in 1..Len(DATA.neighborhoods)},
          p \in {DATA.productTypes[i].id : i \in 1..Len(DATA.productTypes)} :
          Called([op |-> "build", n |-> n, p |-> p], Cur,
                 Handler(Cur, [op |-> "build", n |-> n, p |-> p]))

NextCalls ==
    \/ CallSell
    \/ CallRenovate
    \/ CallBuild

\* sellProperty, renovateProperty and startBuild called on a drawn portfolio
\* and cash balance, with any id
SpecCalls == InitCalls /\ [][NextCalls]_vars

\* the call that led to the current state, and the state it was made in
IsCall(op) == Len(steps) = 1 /\ steps[1].step = "call" /\ steps[1].cmd.op = op


\* the state a call was made in and the id it named
Before == steps[1].state

CalledIndex == IndexOf(Before.properties, steps[1].cmd.id)

CalledProperty == Before.properties[CalledIndex]

CalledValue == computePropertySnapshot(Before, CalledProperty).value

\* C15: sellProperty on an owned property adds its value, less 2% selling costs
\* and less the loan balance, to cash, an amount that may be negative, and
\* removes that property and no other; on an id that no property has it changes
\* nothing.
C15_Sale ==
    IsCall("sell")
    => IF CalledIndex = 0
       THEN state = Before /\ rng = steps[1].rng
       ELSE /\ state.cash = Before.cash
                            + (CalledValue - (CalledValue * 2) \div 100
                               - CalledProperty.loanBalance)
            /\ state.properties = RemoveAt(Before.properties, CalledIndex)
            /\ Len(state.properties) = Len(Before.properties) - 1
            /\ \A i \in 1..Len(Before.properties) :
                  Before.properties[i].id # steps[1].cmd.id
                  => \E j \in 1..Len(state.properties) :
                        state.properties[j] = Before.properties[i]

\* an owned property has been sold for less than its loan balance and selling
\* costs, and cash has gone down by the difference
C15_Witness ==
    /\ IsCall("sell")
    /\ CalledIndex # 0
    /\ state.cash < Before.cash
    /\ Len(state.properties) < Len(Before.properties)

\* a property has been sold with net proceeds, next to one that was kept
C15_WitnessKept ==
    /\ IsCall("sell")
    /\ CalledIndex # 0
    /\ state.cash > Before.cash
    /\ Len(state.properties) >= 1

\* sellProperty has been called with an id that none of the properties has
C15_WitnessUnknown ==
    /\ IsCall("sell")
    /\ CalledIndex = 0
    /\ Len(Before.properties) >= 1


\* a call left cash, properties, journal, listings, market and neighborhoods as
\* they were
Untouched ==
    /\ state.cash = Before.cash
    /\ state.properties = Before.properties
    /\ state.journal = Before.journal
    /\ state.listings = Before.listings
    /\ state.market = Before.market
    /\ state.neighborhoods = Before.neighborhoods

\* the cost of the build that the call asked for, from the draw the call made
CalledBuildCost ==
    BuildCost(getNeighborhood(Before, steps[1].cmd.n), mulberry32(steps[1].rng))

\* the call asked for a build that the zoning allows, with cash below 25% of its cost
BuildShortOfCash ==
    /\ IsCall("build")
    /\ steps[1].cmd.p \in getNeighborhood(Before, steps[1].cmd.n).zoning
    /\ Before.cash * 100 < CalledBuildCost * 25

\* the cost of the renovation that the call asked for
CalledRenoCost == RenoCost(CalledValue, CalledProperty.renoLevel + 1)

\* the call asked for a renovation of an owned property below the top level,
\* with cash below its cost
RenoShortOfCash ==
    /\ IsCall("reno")
    /\ CalledIndex # 0
    /\ CalledProperty.renoLevel < 3
    /\ Before.cash < CalledRenoCost

\* C16: startBuild called with cash below 25% of the build cost, and
\* renovateProperty called with cash below the renovation cost, leave cash,
\* properties, journal, listings, market and neighborhoods unchanged.
C16_NoFunds ==
    /\ BuildShortOfCash => Untouched
    /\ RenoShortOfCash => Untouched

\* a build has been refused for want of cash, by a player who had some
C16_Witness ==
    /\ BuildShortOfCash
    /\ Before.cash > 0
    /\ CalledBuildCost > 0

\* a renovation has been refused for want of cash, by a player who had some
C16_WitnessRenovation ==
    /\ RenoShortOfCash
    /\ Before.cash > 0

\* a build that was refused for want of cash has drawn from the generator
C16_WitnessDraw ==
    /\ BuildShortOfCash
    /\ rng # steps[1].rng


\* the call asked for a renovation of an owned property that is at the top level
RenoAtTopLevel ==
    /\ IsCall("reno")
    /\ CalledIndex # 0
    /\ CalledProperty.renoLevel = 3

\* C17: every property's renoLevel is one of 0, 1, 2, 3 in every reachable
\* state, and renovateProperty called on a property at level 3 changes neither
\* cash nor any field of any property nor the journal.
C17_RenoLevel ==
    /\ \A i \in 1..Len(state.properties) : state.properties[i].renoLevel \in 0..3
    /\ RenoAtTopLevel
       => /\ state.cash = Before.cash
          /\ state.properties = Before.properties
          /\ state.journal = Before.journal

\* a renovation has been asked for at level 3 by a player whose cash would
\* have paid for it
C17_Witness ==
    /\ RenoAtTopLevel
    /\ Before.cash >= RenoCost(CalledValue, 4)

\* a property has been renovated from level 0 to level 3
C17_WitnessClimbed ==
    /\ IsCall("reno")
    /\ Len(state.journal) >= 3
    /\ \E i \in 1..Len(state.properties) : state.properties[i].renoLevel = 3


\* the call asked for a renovation that went ahead: an owned property below
\* the top level, and cash that covers the cost
RenoDone ==
    /\ IsCall("reno")
    /\ CalledIndex # 0
    /\ CalledProperty.renoLevel < 3
    /\ Before.cash >= CalledRenoCost

\* the property that the call named, after the call
CalledAfter == state.properties[CalledIndex]

\* the renovation charged its cost and raised the level and the rent multiplier
RenoCharged ==
    /\ state.cash = Before.cash - CalledRenoCost
    /\ state.cash >= 0
    /\ CalledAfter.renoLevel = CalledProperty.renoLevel + 1
    /\ CalledAfter.rentIndexMult = Min(13500, CalledProperty.rentIndexMult + 300)

\* C18: a renovation that goes ahead deducts the cost from cash, which stays at
\* least 0, raises renoLevel by one, sets rentIndexMult to min(1.35, old + 0.03)
\* and sets vacancyDelta to max(-0.08, old - 0.005), for every prior
\* vacancyDelta, a lease-up vacancy above 0.20 included.
C18_RenovationEffects ==
    RenoDone
    => /\ RenoCharged
       /\ CalledAfter.vacancyDelta = Max(-800, CalledProperty.vacancyDelta - 50)

\* what the code does: vacancyDelta becomes old - 0.005 clamped to [-0.08, 0.20]
C18_VacancyDeltaClamped ==
    RenoDone
    => /\ RenoCharged
       /\ CalledAfter.vacancyDelta = Min(2000, Max(-800, CalledProperty.vacancyDelta - 50))

\* a renovation has gone ahead on a property in lease-up at a vacancy delta
\* above 0.205 and has left it at 0.20
C18_WitnessLeaseUp ==
    /\ RenoDone
    /\ CalledProperty.vacancyDelta > 2050
    /\ CalledAfter.vacancyDelta = 2000

\* a renovation has gone ahead at the floor of vacancyDelta and at the cap of
\* rentIndexMult
C18_WitnessAtLimits ==
    /\ RenoDone
    /\ CalledAfter.vacancyDelta = -800
    /\ CalledProperty.vacancyDelta > -800
    /\ CalledAfter.rentIndexMult = 13500
    /\ CalledProperty.rentIndexMult < 13500


\* the call asked for a renovation that went ahead, of a property with a lease
LeasedRenoDone == RenoDone /\ HasLease(CalledProperty)

C19_NeverLowered ==
    LeasedRenoDone
    => Get(CalledAfter.lease).leaseRentIndex >= Get(CalledProperty.lease).leaseRentIndex

\* what the code does: leaseRentIndex becomes old x 1.01 clamped to [0.6, 2.0]
C19_LeaseNudgeClamped ==
    LeasedRenoDone
    => Get(CalledAfter.lease).leaseRentIndex
       = Min(20000, Max(6000, (Get(CalledProperty.lease).leaseRentIndex * 101) \div 100))

\* a renovation has gone ahead on a lease whose index was above 2.0 and has
\* left the index at 2.0
C19_WitnessLowered ==
    /\ LeasedRenoDone
    /\ Get(CalledProperty.lease).leaseRentIndex > 20000
    /\ Get(CalledAfter.lease).leaseRentIndex = 20000

\* a renovation has raised a lease index by 1%
C19_WitnessRaised ==
    /\ LeasedRenoDone
    /\ Get(CalledProperty.lease).leaseRentIndex = 11000
    /\ Get(CalledAfter.lease).leaseRentIndex = 11110


\* the latest year advance has recorded its event step: steps[1] holds the
\* event picked, steps[2] the run before the event step, steps[3] the run after
EventStepped == Len(steps) >= 3 /\ steps[3].step = "event"

\* the event of the latest year advance has this scope
EventScoped(scope) ==
    /\ EventStepped
    /\ Has(steps[1].event)
    /\ Get(steps[1].event).scope = scope

\* the neighborhood that the event of the latest year advance targets exists
TargetExists ==
    IndexOf(steps[2].state.neighborhoods, Get(steps[1].event).targetNeighborhood) # 0

\* between states a and b, of neighborhood i nothing but demand, rentIndex,
\* vacancy and capRate has changed
OnlyEventFieldsOf(a, b, i) ==
    b.neighborhoods[i] = [a.neighborhoods[i] EXCEPT !.demand = b.neighborhoods[i].demand,
                                                    !.rentIndex = b.neighborhoods[i].rentIndex,
                                                    !.vacancy = b.neighborhoods[i].vacancy,
                                                    !.capRate = b.neighborhoods[i].capRate]

\* between states a and b, nothing but the market has changed, and of the
\* market nothing but baseRate, spread and liquidity
OnlyMarket(a, b) ==
    /\ b = [a EXCEPT !.market = b.market]
    /\ b.market = [a.market EXCEPT !.baseRate = b.market.baseRate,
                                   !.spread = b.market.spread,
                                   !.liquidity = b.market.liquidity]

\* between states a and b, nothing but the neighborhood with this id has changed
OnlyNeighborhood(a, b, id) ==
    /\ b = [a EXCEPT !.neighborhoods = b.neighborhoods]
    /\ Len(b.neighborhoods) = Len(a.neighborhoods)
    /\ \A i \in 1..Len(a.neighborhoods) :
          IF a.neighborhoods[i].id = id
          THEN OnlyEventFieldsOf(a, b, i)
          ELSE b.neighborhoods[i] = a.neighborhoods[i]

\* C20: in the event step of a year advance, a global event changes only the
\* market and no neighborhood; a neighborhood event changes only the targeted
\* neighborhood, neither the market nor another neighborhood; an event whose
\* target does not exist, or whose scope is neither of the two, changes nothing.
C20_EventFrame ==
    EventStepped
    => /\ steps[3].rng = steps[2].rng
       /\ ~Has(steps[1].event) => steps[3].state = steps[2].state
       /\ EventScoped("global") => OnlyMarket(steps[2].state, steps[3].state)
       /\ EventScoped("neighborhood") /\ TargetExists
          => OnlyNeighborhood(steps[2].state, steps[3].state,
                              Get(steps[1].event).targetNeighborhood)
       /\ EventScoped("neighborhood") /\ ~TargetExists
          => steps[3].state = steps[2].state
       /\ Has(steps[1].event) /\ ~EventScoped("global") /\ ~EventScoped("neighborhood")
          => steps[3].state = steps[2].state

\* a neighborhood event has changed its target, beside another neighborhood
C20_Witness ==
    /\ EventScoped("neighborhood")
    /\ TargetExists
    /\ steps[3].state.neighborhoods # steps[2].state.neighborhoods
    /\ Len(steps[2].state.neighborhoods) >= 2

\* a global event has changed the market
C20_WitnessGlobal ==
    /\ EventScoped("global")
    /\ steps[3].state.market # steps[2].state.market

\* a neighborhood event with effects has been picked whose target does not exist
C20_WitnessNoTarget ==
    /\ EventScoped("neighborhood")
    /\ ~TargetExists
    /\ Get(steps[1].event).effects.demandDelta # 0

\* an event of another scope has been picked that has a market effect
C20_WitnessOtherScope ==
    /\ EventScoped("regional")
    /\ Get(steps[1].event).effects.baseRateDelta # 0


\* ------------------------------------------------------ JavaScript numbers
\* a number as a JavaScript function returns it: finite, or one of the two
\* sentinels
Num(x) == [kind |-> "num", v |-> x]
NaN == [kind |-> "NaN", v |-> 0]
Infinity == [kind |-> "Infinity", v |-> 0]

\* ------------------------------------------------------ property.js: dscr
\* a dscr with the sentinel for a debt service of exactly 0 only
dscr_OnlyAtZero(noi, debtService) ==
    IF debtService = 0 THEN Infinity ELSE Num((noi * S) \div debtService)

\* a ratio in units of 1/S, or Infinity
dscr(noi, debtService) ==
    IF debtService <= 0 THEN Infinity ELSE Num((noi * S) \div debtService)

\* ------------------------------------------------------ tycoon.js: computePortfolio
\* the totals before the first property
NoTotals == [totalValue |-> 0, totalDebt |-> 0, totalNOI |-> 0, totalCF |-> 0, totalDS |-> 0]

\* an iteration that values every property at the market rent index, leased or not
PortfolioStep_AtMarketRent(st, p, t) ==
    LET n == st.neighborhoods[IndexOf(st.neighborhoods, p.neighborhood)]
        product == Product(p.productType)
        noi == computeNOI(p.baseNOI,
                          (n.rentIndex * p.rentIndexMult) \div S,
                          clamp(n.vacancy + p.vacancyDelta, 100, 4000),
                          product.baseExpenseRatio)
        capRate == clamp(n.capRate + p.capRateDelta, 300, 1400)
        value == valueFromNOI(noi, capRate)
        ds == annualDebtService(p.loanBalance, p.loanRate, p.amortYears, p.interestOnly)
    IN  [totalValue |-> t.totalValue + value,
         totalDebt |-> t.totalDebt + p.loanBalance,
         totalNOI |-> t.totalNOI + noi,
         totalCF |-> t.totalCF + (noi - ds.payment),
         totalDS |-> t.totalDS + ds.payment]

\* one iteration of the loop of computePortfolio: property p added to the totals t
PortfolioStep(st, p, t) ==
    LET n == st.neighborhoods[IndexOf(st.neighborhoods, p.neighborhood)]
        product == Product(p.productType)
        noi == computeNOI(p.baseNOI,
                          IF HasLease(p) THEN Get(p.lease).leaseRentIndex
                          ELSE (n.rentIndex * p.rentIndexMult) \div S,
                          clamp(n.vacancy + p.vacancyDelta, 100, 4000),
                          product.baseExpenseRatio)
        capRate == clamp(n.capRate + p.capRateDelta, 300, 1400)
        value == valueFromNOI(noi, capRate)
        ds == annualDebtService(p.loanBalance, p.loanRate, p.amortYears, p.interestOnly)
    IN  [totalValue |-> t.totalValue + value,
         totalDebt |-> t.totalDebt + p.loanBalance,
         totalNOI |-> t.totalNOI + noi,
         totalCF |-> t.totalCF + (noi - ds.payment),
         totalDS |-> t.totalDS + ds.payment]

RECURSIVE PortfolioLoop(_, _, _)
PortfolioLoop(st, i, t) ==
    IF i > Len(st.properties) THEN t
    ELSE PortfolioLoop(st, i + 1, PortfolioStep(st, st.properties[i], t))

\* what computePortfolio returns, from the totals of its loop
PortfolioOf(st, t) ==
    [totalValue |-> t.totalValue,
     totalDebt |-> t.totalDebt,
     totalNOI |-> t.totalNOI,
     totalCF |-> t.totalCF,
     equity |-> t.totalValue - t.totalDebt + st.cash,
     portfolioDSCR |-> dscr(t.totalNOI, t.totalDS)]

\* a computePortfolio that books the cash flow it has summed, as
\* applyOperatingCashFlow does
computePortfolio_BooksCashFlow(c) ==
    [c |-> [c EXCEPT !.state.cash = @ + PortfolioLoop(c.state, 1, NoTotals).totalCF],
     port |-> PortfolioOf(c.state, PortfolioLoop(c.state, 1, NoTotals))]

\* computePortfolio called on the run c: the run as the call leaves it, and
\* the totals returned
computePortfolio(c) ==
    [c |-> c,
     port |-> PortfolioOf(c.state, PortfolioLoop(c.state, 1, NoTotals))]


\* ------------------------------------------------------ portfolio totals
\* portfolios of the portfolio specification: those of the direct calls, a
\* property without debt, and none
PortfolioInputs ==
    CallPortfolios
    \cup {<<[CallOffice(0, S, 0, 11000) EXCEPT !.loanBalance = 0]>>, <<>>}

InitPortfolio ==
    /\ DATA = ReferenceData
    /\ settings = [seed |-> <<1>>, difficulty |-> "normal"]
    /\ \E props \in PortfolioInputs, cash \in CallCash :
          StartsAs(Redraw([initRun(ReferenceData, [seed |-> <<1>>, difficulty |-> "normal"],
                                   makeRng(<<1>>, 0))
                           EXCEPT !.state.properties = props,
                                  !.state.cash = cash,
                                  !.state.year = 4]))

\* computePortfolio has been called on the run before, and once more on the
\* run that the first call, which returned first, left; steps keeps the run
\* before and what the two calls returned
Shown(before, first, again) ==
    /\ state' = again.c.state
    /\ rng' = again.c.rng
    /\ dom' = again.c.dom
    /\ steps' = <<[step |-> "call", cmd |-> [op |-> "portfolio"],
                   state |-> before.state, rng |-> before.rng,
                   port |-> first.port, again |-> again.port]>>
    /\ UNCHANGED <<DATA, settings, hist>>

\* render's call of computePortfolio, twice in a row
ShowPortfolio ==
    /\ hist.commands <= MaxCmds
    /\ Shown(Cur, computePortfolio(Cur), computePortfolio(computePortfolio(Cur).c))

NextPortfolio ==
    \/ ShowPortfolio
    \/ CallSell
    \/ CallRenovate
    \/ CallBuild

\* computePortfolio called between calls of sellProperty, renovateProperty
\* and startBuild
SpecPortfolio == InitPortfolio /\ [][NextPortfolio]_vars

\* C21: computePortfolio changes no part of the run state, the generator
\* included, and a second call right after the first returns the same totals.
C21_PortfolioIsPure ==
    IsCall("portfolio")
    => /\ state = Before
       /\ rng = steps[1].rng
       /\ steps[1].again = steps[1].port

\* computePortfolio has been called after a command, on two properties with
\* a cash flow to report
C21_Witness ==
    /\ IsCall("portfolio")
    /\ hist.commands >= 1
    /\ Len(state.properties) >= 2
    /\ steps[1].port.totalCF # 0

RECURSIVE SumSeq(_)
SumSeq(s) == IF s = <<>> THEN 0 ELSE s[1] + SumSeq(Tail(s))

\* what computePropertySnapshot returns for each property of st
Snapshots(st) ==
    [i \in 1..Len(st.properties) |-> computePropertySnapshot(st, st.properties[i])]

\* C22: the totals computePortfolio returns are the sums over the properties
\* of the value, noi and ds.payment of computePropertySnapshot and of
\* loanBalance, and equity is totalValue - totalDebt + cash.
C22_PortfolioSums ==
    IsCall("portfolio")
    => LET snaps == Snapshots(Before)
           n == Len(Before.properties)
           port == steps[1].port
           sumNOI == SumSeq([i \in 1..n |-> snaps[i].noi])
           sumDS == SumSeq([i \in 1..n |-> snaps[i].ds.payment])
       IN  /\ port.totalValue = SumSeq([i \in 1..n |-> snaps[i].value])
           /\ port.totalNOI = sumNOI
           /\ port.totalNOI - port.totalCF = sumDS
           /\ port.portfolioDSCR = dscr(sumNOI, sumDS)
           /\ port.totalDebt = SumSeq([i \in 1..n |-> Before.properties[i].loanBalance])
           /\ port.equity = port.totalValue - port.totalDebt + Before.cash

\* totals have been computed of a leased property whose lease rent is not the
\* market rent and a property without a lease
C22_Witness ==
    /\ IsCall("portfolio")
    /\ \E i, j \in 1..Len(state.properties) :
          /\ HasLease(state.properties[i])
          /\ Get(state.properties[i].lease).leaseRentIndex
                # MarketRentIndex(state, state.properties[i])
          /\ ~HasLease(state.properties[j])
    /\ steps[1].port.totalValue > 0
    /\ steps[1].port.totalDebt > 0

\* totals have been computed of a portfolio without debt service
C22_WitnessNoDebt ==
    /\ IsCall("portfolio")
    /\ Len(state.properties) >= 1
    /\ steps[1].port.portfolioDSCR = Infinity


\* ------------------------------------------------------ loaded snapshots
\* the fields that a property of a saved run may lack
OptionalFields == {"lease", "renoLevel", "ltv", "maturityYear"}

\* the record p without the fields F
Without(p, F) == [g \in DOMAIN p \ F |-> p[g]]

\* a property of a saved run, of product t, lacking the fields F: renovated
\* twice, at a target LTV of 0.50, its loan due in year 5
SavedProperty(t, F) ==
    Without([OwnedProperty(t, S, Some([yearsRemaining |-> 3, rollPct |-> 800,
                                       leaseRentIndex |-> 9000]))
             EXCEPT !.renoLevel = 2, !.ltv = 5000, !.maturityYear = 5],
            F)

\* the property lists of the saved runs: one property lacking any of the
\* optional fields, and a property lacking all of them beside a complete one
SavedPortfolios ==
    {<<SavedProperty(t, F)>> : t \in {"office", "hotel"}, F \in SUBSET OptionalFields}
    \cup {<<SavedProperty("office", OptionalFields),
            [SavedProperty("hotel", {}) EXCEPT !.id.i = 1]>>}

\* the run that loadRun returns: saved in year 4 with these properties and cash
SavedRun(props, cash) ==
    [initRun(ReferenceData, [seed |-> <<1>>, difficulty |-> "normal"], makeRng(<<1>>, 0)).state
     EXCEPT !.properties = props, !.cash = cash, !.year = 4]

\* The deals are data of the page, loaded from a file: an office downtown
\* bought for $10M with a 65% loan at 6% over 30 years, in-place NOI $650K and
\* a market lift of 10%; and a multifamily building at the harbor bought for
\* $4M without a loan, with a lift of 20%.
Deals ==
    {[id |-> "tower", neighborhood |-> "downtown", productType |-> "office",
      purchasePrice |-> 10000, inPlaceNOI |-> 650, marketNOILiftPct |-> 1000,
      debt |-> [ltv |-> 6500, rate |-> 600, amortYears |-> 30]],
     [id |-> "lofts", neighborhood |-> "harbor", productType |-> "multifamily",
      purchasePrice |-> 4000, inPlaceNOI |-> 300, marketNOILiftPct |-> 2000,
      debt |-> [ltv |-> 0, rate |-> 600, amortYears |-> 30]]}

\* ------------------------------------------------------ deal-judge-ui.js
\* importIntoTycoon on the saved run: the run that it writes back (the saved
\* run itself when the down payment is refused); now is Date.now()
importIntoTycoon(run, deal, now) ==
    LET down == (deal.purchasePrice * (S - deal.debt.ltv)) \div S
        p == [id |-> [kind |-> "IMP", deal |-> deal.id, year |-> 0, i |-> 0, n |-> now],
              neighborhood |-> deal.neighborhood,
              productType |-> deal.productType,
              baseNOI |-> (deal.inPlaceNOI * (S + deal.marketNOILiftPct \div 2)) \div S,
              rentIndexMult |-> S,
              vacancyDelta |-> 0,
              capRateDelta |-> 0,
              loanBalance |-> (deal.purchasePrice * deal.debt.ltv) \div S,
              loanRate |-> deal.debt.rate,
              amortYears |-> deal.debt.amortYears,
              interestOnly |-> FALSE,
              build |-> Null]
    IN  IF run.cash < down THEN run
        ELSE [run EXCEPT
               !.cash = @ - down,
               !.properties = Append(@, p),
               !.journal = Append(@, [year |-> run.year, action |-> "IMPORT_BUY",
                                      target |-> deal.id, price |-> deal.purchasePrice])]

\* cash of the saved runs that a deal is imported into, in $K: short of every
\* down payment, and enough for each
ImportCash == {3000, 6000}

\* the saved runs after an import: a deal imported into a run that holds
\* nothing, or a complete property whose loan is due in year 5
ImportedRuns ==
    {importIntoTycoon(SavedRun(props, cash), deal, 0) :
        props \in {<<>>, <<SavedProperty("hotel", {})>>}, cash \in ImportCash, deal \in Deals}

InitLoaded ==
    /\ DATA = ReferenceData
    /\ settings = [seed |-> <<1>>, difficulty |-> "normal"]
    /\ \E saved \in {SavedRun(props, cash) : props \in SavedPortfolios, cash \in CallCash}
                    \cup ImportedRuns :
          StartsAs(initRunSaved(saved, makeRng(<<1>>, 0)))

NextLoaded ==
    \/ NextYear
    \/ CallSell
    \/ CallRenovate

\* year advances, sales and renovations on a loaded run
SpecLoaded == InitLoaded /\ [][NextLoaded]_vars

\* the latest step was a year advance, and it ran to its end
YearAdvanced == Len(steps) >= 9 /\ steps[Len(steps)].step = "listings"

\* C23: a loaded run whose properties lack lease, renoLevel, ltv or
\* maturityYear is accepted. Every property has a lease after initRun and
\* after every year advance; a year advance runs to its end; a renovation of a
\* property without renoLevel is the first one, to level 1; a sale removes the
\* property; a property without ltv is refinanced at 0.65 of its value, and a
\* property without maturityYear has no maturity.
C23_LoadedSnapshot ==
    /\ \A i \in 1..Len(state.properties) : HasLease(state.properties[i])
    /\ YearAdvanced
       => /\ state.year = steps[1].state.year + 1
          /\ state = steps[Len(steps)].state
    /\ \A k \in MaturityEntries :
          LET p == PropertyOf(steps[k].before, steps[k].id)
          IN  /\ "maturityYear" \in DOMAIN p
              /\ "ltv" \notin DOMAIN p /\ steps[k].ok
                 => PropertyOf(steps[k].refi, steps[k].id).loanBalance
                    = Max(0, (computePropertySnapshot(steps[k].before, p).value * 6500) \div S)
    /\ /\ IsCall("reno")
       /\ CalledIndex # 0
       /\ "renoLevel" \notin DOMAIN CalledProperty
       => LET cost == RenoCost(CalledValue, 1)
          IN  IF Before.cash < cost THEN state = Before
              ELSE /\ state.cash = Before.cash - cost
                   /\ CalledAfter.renoLevel = 1
    /\ IsCall("sell") /\ CalledIndex # 0
       => /\ state.properties = RemoveAt(Before.properties, CalledIndex)
          /\ state.cash = Before.cash + SaleNet(CalledValue, CalledProperty.loanBalance)

\* a year advance has run to its end on a property that lacks renoLevel, ltv
\* and maturityYear and that got its lease when the run was loaded
C23_Witness ==
    /\ YearAdvanced
    /\ \E i \in 1..Len(state.properties) :
          /\ DOMAIN state.properties[i] \cap OptionalFields = {"lease"}
          /\ HasLease(state.properties[i])
          /\ IndexOf(steps[1].state.properties, state.properties[i].id) # 0

\* a run has been loaded whose property lacked a lease and has one now
C23_WitnessLeaseGiven ==
    /\ steps = <<>>
    /\ \E i \in 1..Len(state.properties) :
          /\ HasLease(state.properties[i])
          /\ Get(state.properties[i].lease).leaseRentIndex
                = MarketRentIndex(state, state.properties[i])
          /\ "renoLevel" \notin DOMAIN state.properties[i]

\* a property without renoLevel has been renovated to level 1
C23_WitnessRenovated ==
    /\ IsCall("reno")
    /\ CalledIndex # 0
    /\ "renoLevel" \notin DOMAIN CalledProperty
    /\ "renoLevel" \in DOMAIN CalledAfter
    /\ CalledAfter.renoLevel = 1

\* a property without ltv has been refinanced, at a loan that 0.50 of its
\* value would not have given
C23_WitnessDefaultLtv ==
    \E k \in MaturityEntries :
        /\ "ltv" \notin DOMAIN PropertyOf(steps[k].before, steps[k].id)
        /\ steps[k].ok
        /\ PropertyOf(steps[k].refi, steps[k].id).loanBalance
              > (computePropertySnapshot(steps[k].before,
                                         PropertyOf(steps[k].before, steps[k].id)).value
                 * 5000) \div S

\* a property without maturityYear has been held through the year its loan
\* would have been due
C23_WitnessNoMaturity ==
    /\ YearAdvanced
    /\ state.year >= 5
    /\ MaturityEntries = {}
    /\ \E i \in 1..Len(state.properties) : "maturityYear" \notin DOMAIN state.properties[i]

\* a property that was loaded without any of the four fields has been sold
C23_WitnessSold ==
    /\ IsCall("sell")
    /\ CalledIndex # 0
    /\ DOMAIN CalledProperty \cap OptionalFields = {"lease"}


\* ------------------------------------------------------ function calls
\* a new run, beside which the functions of property.js and deals.js are called
InitFunctions ==
    /\ DATA = ReferenceData
    /\ settings = [seed |-> <<1>>, difficulty |-> "normal"]
    /\ StartsAs(initRun(ReferenceData, [seed |-> <<1>>, difficulty |-> "normal"],
                        makeRng(<<1>>, 0)))

\* the call cmd has returned result; steps keeps both
Returned(cmd, result) ==
    /\ steps' = <<[step |-> "call", cmd |-> cmd, result |-> result]>>
    /\ UNCHANGED <<DATA, settings, rng, state, dom, hist>>

\* arguments of annualDebtService: balances in $K around 0, rates from 0 to
\* 16% in units of 1/S, terms from 0 years on; a rate of 0 goes with an
\* interest-only loan or no balance
LoanInputs ==
    {a \in [balance : {-500, 0, 1, 5000, 60000}, rate : {0, 1, 450, 1600},
            amortYears : {0, 1, 10, 30}, interestOnly : BOOLEAN] :
        a.rate = 0 => a.interestOnly \/ a.balance <= 0}

CallAnnualDebtService ==
    /\ steps = <<>> \/ IsCall("annualDebtService")
    /\ \E a \in LoanInputs :
          Returned([op |-> "annualDebtService", args |-> a],
                   annualDebtService(a.balance, a.rate, a.amortYears, a.interestOnly))

\* arguments of computeNOI: base NOI in $K on both sides of 0, and the ends
\* of the domains of rent index, vacancy and expense ratio, in units of 1/S
NOIInputs ==
    [baseNOI : {-8000, -1, 0, 650, 8000}, rentIndex : {6000, S, 24300},
     vacancy : {100, 500, 2100, 4000}, expenseRatio : {0, 3500, 9000}]

CallComputeNOI ==
    /\ steps = <<>> \/ IsCall("computeNOI")
    /\ \E a \in NOIInputs :
          Returned([op |-> "computeNOI", args |-> a],
                   Num(computeNOI(a.baseNOI, a.rentIndex, a.vacancy, a.expenseRatio)))

\* arguments of dscr, in $K
DscrInputs == [noi : {-500, 0, 650, 30000}, debtService : {-100, 0, 1, 400}]

CallDscr ==
    /\ steps = <<>> \/ IsCall("dscr")
    /\ \E a \in DscrInputs :
          Returned([op |-> "dscr", args |-> a], dscr(a.noi, a.debtService))

\* the arguments and the result of the latest call
Args == steps[1].cmd.args

Result == steps[1].result

\* C28: annualDebtService returns payment = interest = principal = 0 when
\* balance <= 0; for an interest-only loan payment = interest = balance x rate
\* and principal = 0; for an amortizing loan with balance > 0 and rate > 0,
\* interest = balance x rate, principal >= 0 and payment = interest + principal.
C28_DebtService ==
    IsCall("annualDebtService")
    => /\ Args.balance <= 0
          => Result = [payment |-> 0, interest |-> 0, principal |-> 0]
       /\ Args.balance > 0 /\ Args.interestOnly
          => /\ Result.interest = (Args.balance * Args.rate) \div S
             /\ Result.payment = Result.interest
             /\ Result.principal = 0
       /\ Args.balance > 0 /\ ~Args.interestOnly /\ Args.rate > 0
          => /\ Result.interest = (Args.balance * Args.rate) \div S
             /\ Result.principal >= 0
             /\ Result.payment = Result.interest + Result.principal

\* the service of an amortizing loan has been computed, with principal in it
C28_Witness ==
    /\ IsCall("annualDebtService")
    /\ ~Args.interestOnly
    /\ Args.balance > 0
    /\ Result.principal > 0
    /\ Result.interest > 0

\* the service of an interest-only loan has been computed for which an
\* amortizing loan would pay principal
C28_WitnessInterestOnly ==
    /\ IsCall("annualDebtService")
    /\ Args.interestOnly
    /\ Args.balance > 0
    /\ Result.payment > 0
    /\ annualDebtService(Args.balance, Args.rate, Args.amortYears, FALSE).principal > 0

\* C29: computeNOI returns a value >= 0 for every base NOI, negative ones
\* included, rent index in [0.6, 2.43], vacancy in [0.01, 0.40] and expense
\* ratio in [0, 1).
C29_NOINotNegative ==
    IsCall("computeNOI") => Result.kind = "num" /\ Result.v >= 0

\* computeNOI has been called with a negative base NOI
C29_Witness ==
    /\ IsCall("computeNOI")
    /\ Args.baseNOI < 0
    /\ Result = Num(0)

\* computeNOI has returned a positive NOI at the top of the rent index domain
C29_WitnessPositive ==
    /\ IsCall("computeNOI")
    /\ Args.rentIndex = 24300
    /\ Args.expenseRatio = 9000
    /\ Result.v > 0

\* C30: dscr returns the infinite sentinel whenever debtService <= 0, for
\* every noi, and 0 for noi = 0 and any debtService > 0.
C30_Dscr ==
    IsCall("dscr")
    => /\ Args.debtService <= 0 => Result = Infinity
       /\ Args.noi = 0 /\ Args.debtService > 0 => Result = Num(0)

\* dscr has been called with a negative debt service and a negative noi
C30_Witness ==
    /\ IsCall("dscr")
    /\ Args.debtService < 0
    /\ Args.noi < 0
    /\ Result = Infinity

\* dscr has been called with noi = 0 and a positive debt service
C30_WitnessZero ==
    /\ IsCall("dscr")
    /\ Args.noi = 0
    /\ Args.debtService > 0
    /\ Result = Num(0)

NextFunctions ==
    \/ CallAnnualDebtService
    \/ CallComputeNOI
    \/ CallDscr

\* calls of the functions of property.js and deals.js with drawn arguments
SpecFunctions == InitFunctions /\ [][NextFunctions]_vars


\* ------------------------------------------------------ exact arithmetic
\* The bisection of solveIRR halves an interval up to 80 times and compares a
\* net present value with 1e-6: numbers far beyond 32 bits. Natural numbers
\* are kept as sequences of digits in base 10^4, lowest digit first, without
\* leading zeros (<<>> is 0); integers as a sign and a natural number. Sums
\* and differences find every carry directly from the digits below it, so
\* that no operator recurses along the digits of a long number.
Base == 10 ^ 4

RECURSIVE NatOf(_)
NatOf(n) == IF n = 0 THEN <<>> ELSE <<n % Base>> \o NatOf(n \div Base)

\* digit i of a, 0 beyond its length
Digit(a, i) == IF i <= Len(a) THEN a[i] ELSE 0

\* a digit sequence without its leading zeros
Trim(a) ==
    LET used == {i \in 1..Len(a) : a[i] # 0}
    IN  IF used = {} THEN <<>>
        ELSE SubSeq(a, 1, CHOOSE i \in used : \A j \in used : j <= i)

NatAdd(a, b) ==
    LET n == Max(Len(a), Len(b))
        sum == [i \in 1..n |-> Digit(a, i) + Digit(b, i)]
        over == {j \in 1..n : sum[j] >= Base}
        \* a carry reaches digit i from an overflowing digit below it when
        \* every digit between the two is full
        carry == [i \in 1..(n + 1) |->
                    IF \E j \in over : j < i /\ \A m \in (j + 1)..(i - 1) : sum[m] >= Base - 1
                    THEN 1 ELSE 0]
    IN  Trim([i \in 1..(n + 1) |-> IF i <= n THEN (sum[i] + carry[i]) % Base ELSE carry[i]])

\* a - b for a >= b
NatSub(a, b) ==
    LET n == Len(a)
        diff == [i \in 1..n |-> a[i] - Digit(b, i)]
        under == {j \in 1..n : diff[j] < 0}
        borrow == [i \in 1..n |->
                     IF \E j \in under : j < i /\ \A m \in (j + 1)..(i - 1) : diff[m] <= 0
                     THEN 1 ELSE 0]
    IN  Trim([i \in 1..n |-> (diff[i] - borrow[i]) % Base])

\* -1, 0 or 1 as a < b, a = b or a > b
NatCmp(a, b) ==
    LET differ == {i \in 1..Len(a) : a[i] # Digit(b, i)}
        top == CHOOSE i \in differ : \A j \in differ : j <= i
    IN  IF Len(a) # Len(b) THEN (IF Len(a) < Len(b) THEN -1 ELSE 1)
        ELSE IF differ = {} THEN 0
        ELSE IF a[top] < b[top] THEN -1 ELSE 1

\* a times the base to the power n
ShiftBy(a, n) == IF a = <<>> THEN a ELSE [i \in 1..n |-> 0] \o a

\* a times the digit d: the low digits of the products, plus their high digits
\* one place up
NatMulDigit(a, d) ==
    NatAdd(Trim([i \in 1..Len(a) |-> (a[i] * d) % Base]),
           ShiftBy(Trim([i \in 1..Len(a) |-> (a[i] * d) \div Base]), 1))

\* a times b: a times the lower half of b's digits, plus a times the upper half
RECURSIVE NatMul(_, _)
NatMul(a, b) ==
    IF a = <<>> \/ b = <<>> THEN <<>>
    ELSE IF Len(b) = 1 THEN NatMulDigit(a, b[1])
    ELSE LET h == Len(b) \div 2
         IN  NatAdd(NatMul(a, Trim(SubSeq(b, 1, h))),
                    ShiftBy(NatMul(a, SubSeq(b, h + 1, Len(b))), h))

\* integers
Z(n) == [neg |-> n < 0, mag |-> NatOf(IF n < 0 THEN -n ELSE n)]

Sign(x) == IF x.mag = <<>> THEN 0 ELSE IF x.neg THEN -1 ELSE 1

Neg(x) == [neg |-> ~x.neg /\ x.mag # <<>>, mag |-> x.mag]

Abs(x) == [neg |-> FALSE, mag |-> x.mag]

Plus(x, y) ==
    IF x.neg = y.neg THEN [neg |-> x.neg, mag |-> NatAdd(x.mag, y.mag)]
    ELSE IF NatCmp(x.mag, y.mag) = 0 THEN Z(0)
    ELSE IF NatCmp(x.mag, y.mag) > 0 THEN [neg |-> x.neg, mag |-> NatSub(x.mag, y.mag)]
    ELSE [neg |-> y.neg, mag |-> NatSub(y.mag, x.mag)]

Times(x, y) ==
    [neg |-> x.neg # y.neg /\ x.mag # <<>> /\ y.mag # <<>>, mag |-> NatMul(x.mag, y.mag)]

\* x < y
Less(x, y) == Sign(Plus(x, Neg(y))) < 0

RECURSIVE Power(_, _)
Power(x, n) == IF n = 0 THEN Z(1) ELSE Times(x, Power(x, n - 1))


\* ------------------------------------------------------ deals.js: solveIRR
\* A discount rate is the fraction num / den; the bisection starts from
\* -9/10 and 15/10 and every halving doubles den. A net present value is the
\* fraction p / q with q > 0.
Rate(num, den) == [num |-> num, den |-> den]

\* every cash flow of the stream is a finite number
Finite(cfs) == \A i \in 1..Len(cfs) : cfs[i].kind = "num"

\* sum of cfs[i] * den^(i-1) * (den + num)^(n-i) from cash flow i on, n = Len(cfs)
RECURSIVE NpvLoop(_, _, _, _, _)
NpvLoop(cfs, i, r, s, denPow) ==
    IF i > Len(cfs) THEN s
    ELSE NpvLoop(cfs, i + 1, r,
                 Plus(Times(s, Plus(r.den, r.num)), Times(Z(cfs[i].v), denPow)),
                 Times(denPow, r.den))

\* sum of cf / (1 + r)^i over the stream, i from 0: with 1 + r = (den + num) / den
\* that is NpvLoop / (den + num)^(n-1)
npv(cfs, r) ==
    [p |-> NpvLoop(cfs, 1, r, Z(0), Z(1)),
     q |-> Power(Plus(r.den, r.num), Max(0, Len(cfs) - 1))]

\* a test that stops the bisection at one cent
Small_Cents(f) == Less(Times(Abs(f.p), Power(Z(10), 2)), f.q)

\* Math.abs(f) < 1e-6
Small(f) == Less(Times(Abs(f.p), Power(Z(10), 6)), f.q)

\* the rate found, and after how many midpoints
Found(r, k) == [kind |-> "num", num |-> r.num, den |-> r.den, steps |-> k]

\* one iteration of the loop of solveIRR: lo and hi are numerators over den,
\* k counts the midpoints tried, out is the rate returned from inside the loop
BisectStep(cfs, fLo, it) ==
    LET mid == Rate(Plus(it.lo, it.hi), Times(it.den, Z(2)))
        f == npv(cfs, mid)
    IN  IF Has(it.out) THEN it
        ELSE IF Small(f) THEN [it EXCEPT !.k = @ + 1, !.out = Some(Found(mid, it.k + 1))]
        ELSE IF Sign(fLo.p) * Sign(f.p) <= 0
             THEN [lo |-> Times(it.lo, Z(2)), hi |-> mid.num, den |-> mid.den,
                   k |-> it.k + 1, out |-> Null]
             ELSE [lo |-> mid.num, hi |-> Times(it.hi, Z(2)), den |-> mid.den,
                   k |-> it.k + 1, out |-> Null]

\* n iterations of the loop: the first half of them, and the rest from where
\* those end. The first half is taken from a set, so that it is evaluated
\* before the rest starts.
RECURSIVE BisectLoop(_, _, _, _)
BisectLoop(cfs, fLo, it, n) ==
    IF n = 0 \/ Has(it.out) THEN it
    ELSE IF n = 1 THEN BisectStep(cfs, fLo, it)
    ELSE CHOOSE end \in {BisectLoop(cfs, fLo, half, n - n \div 2) :
                            half \in {BisectLoop(cfs, fLo, it, n \div 2)}} : TRUE

\* the 80 iterations from -0.9 and 1.5, and the midpoint that is returned
\* when none of them returned
Bisect(cfs, fLo) ==
    LET it == BisectLoop(cfs, fLo, [lo |-> Z(-9), hi |-> Z(15), den |-> Z(10),
                                    k |-> 0, out |-> Null], 80)
    IN  IF Has(it.out) THEN Get(it.out)
        ELSE Found(Rate(Plus(it.lo, it.hi), Times(it.den, Z(2))), 80)

\* a solveIRR that bisects without looking at the signs at the two ends
solveIRR_Unbracketed(cfs) ==
    IF ~Finite(cfs) THEN NaN
    ELSE Bisect(cfs, npv(cfs, Rate(Z(-9), Z(10))))

solveIRR(cfs) ==
    IF ~Finite(cfs) THEN NaN
    ELSE LET fLo == npv(cfs, Rate(Z(-9), Z(10)))
             fHi == npv(cfs, Rate(Z(15), Z(10)))
         IN  IF Sign(fLo.p) * Sign(fHi.p) > 0 THEN NaN
             ELSE Bisect(cfs, fLo)



\* ------------------------------------------------------ deals.js: underwriteDeal
\* Math.floor of a number in units of 1/S, as a count
MathFloor(x) == IF x.kind = "num" THEN Num(x.v \div S) ELSE x

\* Math.max and Math.min: NaN when either argument is NaN
MathMax(a, b) ==
    IF a.kind = "NaN" \/ b.kind = "NaN" THEN NaN
    ELSE IF a.kind = "Infinity" \/ b.kind = "Infinity" THEN Infinity
    ELSE Num(Max(a.v, b.v))

MathMin(a, b) ==
    IF a.kind = "NaN" \/ b.kind = "NaN" THEN NaN
    ELSE IF a.kind = "Infinity" THEN b
    ELSE IF b.kind = "Infinity" THEN a
    ELSE Num(Min(a.v, b.v))

\* clamp of utils.js on a number that may be NaN
clampNumber(x, lo, hi) == MathMax(Num(lo), MathMin(Num(hi), x))

\* a sum, a difference, and a product with a ratio in units of 1/S: NaN when
\* either operand is
Add(a, b) == IF a.kind = "num" /\ b.kind = "num" THEN Num(a.v + b.v) ELSE NaN

Sub(a, b) == IF a.kind = "num" /\ b.kind = "num" THEN Num(a.v - b.v) ELSE NaN

Mul(a, b) == IF a.kind = "num" /\ b.kind = "num" THEN Num((a.v * b.v) \div S) ELSE NaN

\* the four constants underwriteDeal makes of its inputs
Scenario(inputs) ==
    [hold |-> MathMax(Num(1), MathFloor(inputs.holdYears)),
     rentGrowth |-> clampNumber(inputs.rentGrowth, -1000, 1500),
     exitCap |-> clampNumber(inputs.exitCap, 300, 1200),
     capex |-> MathMax(Num(0), inputs.capex)]

\* one year of the projection: u holds noi, loanBal, the rent index of the
\* year before and the rows pushed so far
UnderwriteStep(deal, neighborhood, product, sc, u, y) ==
    LET lift == IF y <= 2 THEN (deal.marketNOILiftPct * y) \div 2 ELSE deal.marketNOILiftPct
        rentIndex == Mul(u.rentIndex, Add(Num(S), sc.rentGrowth))
        baseNOI == Mul(u.noi, Num(S + lift))
        projectedNOI ==
            IF baseNOI.kind = "num" /\ rentIndex.kind = "num"
            THEN Num(computeNOI(baseNOI.v, rentIndex.v, neighborhood.vacancy,
                                product.baseExpenseRatio))
            ELSE NaN
        ds == annualDebtService(u.loanBal, deal.debt.rate, deal.debt.amortYears, FALSE)
        loanBal == Max(0, u.loanBal - ds.principal)
        capexHit == IF y = 1 THEN sc.capex ELSE Num(0)
        cf == Sub(Sub(projectedNOI, Num(ds.payment)), capexHit)
    IN  [noi |-> projectedNOI,
         loanBal |-> loanBal,
         rentIndex |-> rentIndex,
         cashFlows |-> Append(u.cashFlows,
             [year |-> y, noi |-> projectedNOI, debtService |-> ds.payment,
              dscr |-> IF projectedNOI.kind = "num" \/ ds.payment <= 0
                       THEN dscr(projectedNOI.v, ds.payment)
                       ELSE NaN,
              cashFlow |-> cf, loanBalance |-> loanBal])]

\* the loop from year y on: y <= hold is false for every y when hold is NaN
RECURSIVE UnderwriteLoop(_, _, _, _, _, _)
UnderwriteLoop(deal, neighborhood, product, sc, u, y) ==
    IF sc.hold.kind = "num" /\ y <= sc.hold.v
    THEN UnderwriteLoop(deal, neighborhood, product, sc,
                        UnderwriteStep(deal, neighborhood, product, sc, u, y), y + 1)
    ELSE u

\* the call has thrown: nothing is returned
Threw == [threw |-> TRUE]

\* the amounts of a stream in dollars, as solveIRR gets them
Dollars(cfs) ==
    [i \in 1..Len(cfs) |-> IF cfs[i].kind = "num" THEN Num(cfs[i].v * 1000) ELSE cfs[i]]

RECURSIVE SumFlows(_)
SumFlows(rows) ==
    IF rows = <<>> THEN Num(0) ELSE Add(rows[1].cashFlow, SumFlows(Tail(rows)))

\* what follows the loop; reading .noi of the last row throws when there is no row
Underwritten(deal, sc, u) ==
    IF u.cashFlows = <<>> THEN Threw
    ELSE LET exitNOI == u.cashFlows[Len(u.cashFlows)].noi
             exitValue ==
                 IF sc.exitCap.kind = "num" /\ sc.exitCap.v > 0
                 THEN (IF exitNOI.kind = "num"
                       THEN Num(valueFromNOI(exitNOI.v, sc.exitCap.v)) ELSE NaN)
                 ELSE Num(0)
             saleNet == Sub(exitValue, Num(u.loanBal))
             loanAmt == (deal.purchasePrice * deal.debt.ltv) \div S
             equity == Add(Num(deal.purchasePrice - loanAmt), sc.capex)
             flows == [i \in 1..Len(u.cashFlows) |-> u.cashFlows[i].cashFlow]
             totalDistributions == Add(SumFlows(u.cashFlows), saleNet)
         IN  [threw |-> FALSE,
              scenario |-> sc,
              cashFlows |-> u.cashFlows,
              exitValue |-> exitValue,
              saleNet |-> saleNet,
              equity |-> equity,
              irr |-> solveIRR(Dollars(<<Sub(Num(0), equity)>> \o flows \o <<saleNet>>)),
              equityMultiple |->
                  IF equity.kind = "num" /\ equity.v > 0
                  THEN (IF totalDistributions.kind = "num"
                        THEN Num((totalDistributions.v * S) \div equity.v) ELSE NaN)
                  ELSE Num(0)]

underwriteDeal(deal, neighborhood, product, inputs) ==
    LET sc == Scenario(inputs)
        loanAmt == (deal.purchasePrice * deal.debt.ltv) \div S
    IN  Underwritten(deal, sc,
            UnderwriteLoop(deal, neighborhood, product, sc,
                           [noi |-> Num(deal.inPlaceNOI), loanBal |-> loanAmt,
                            rentIndex |-> Num(neighborhood.rentIndex),
                            cashFlows |-> <<>>], 1))

\* ------------------------------------------------------ calls of deals.js
\* cash-flow streams of up to three numbers, the not-a-number among them, and
\* the stream of three positive numbers
IrrValues == {Num(-1000), Num(-100), Num(0), Num(50), Num(100), Num(1100), NaN}

IrrStreams ==
    {<<>>, <<Num(100), Num(50), Num(50)>>}
    \cup [1..1 -> IrrValues] \cup [1..2 -> IrrValues] \cup [1..3 -> IrrValues]


\* what the page reads from its four fields with Number(...): years and ratios
\* in units of 1/S, capex in $K, and NaN for a text that is not a number
ScenarioInputs ==
    [holdYears : {NaN, Num(-20000), Num(5000), Num(S), Num(27000), Num(30000)},
     rentGrowth : {NaN, Num(-2000), Num(300), Num(2500)},
     exitCap : {NaN, Num(0), Num(600), Num(2000)},
     capex : {NaN, Num(-500), Num(250)}]

CallUnderwriteDeal ==
    /\ steps = <<>>
    /\ \E deal \in Deals, inputs \in ScenarioInputs :
          Returned([op |-> "underwriteDeal", args |-> [deal |-> deal, inputs |-> inputs]],
                   underwriteDeal(deal,
                                  getNeighborhood(DATA, deal.neighborhood),
                                  Product(deal.productType), inputs))

CallSolveIRR ==
    /\ steps = <<>>
    /\ \E cfs \in IrrStreams :
          Returned([op |-> "solveIRR", args |-> cfs], solveIRR(cfs))

\* the sum of v(i) * a^i * b^(n-i) over a stream v of n+1 integers, i from 0
RECURSIVE Weighted(_, _, _)
Weighted(v, a, b) ==
    IF v = <<>> THEN 0
    ELSE v[1] * b ^ (Len(v) - 1) + a * Weighted(Tail(v), a, b)

\* the cash flows of a finite stream as integers
Flows(cfs) == [i \in 1..Len(cfs) |-> cfs[i].v]

\* the net present value at -0.9 is the sum of cf(i) * 10^i; the one at 1.5 is
\* the sum of cf(i) * (2/5)^i, which has the sign of the sum of cf(i) * 2^i * 5^(n-i)
NpvAtLow(cfs) == Weighted(Flows(cfs), 10, 1)

NpvAtHigh(cfs) == Weighted(Flows(cfs), 2, 5)

\* -1, 0 or 1 as n is negative, zero or positive
Sgn(n) == IF n > 0 THEN 1 ELSE IF n < 0 THEN -1 ELSE 0

\* the sign of the product of the two net present values
BoundsSign(cfs) == Sgn(NpvAtLow(cfs)) * Sgn(NpvAtHigh(cfs))

\* C26: solveIRR returns NaN for every stream whose values are all positive or
\* all negative, and whenever the net present values at -0.9 and at 1.5 are
\* not finite or have the same strict sign; it never returns NaN for a stream
\* whose net present value changes sign between the two bounds.
C26_NoSolution ==
    IsCall("solveIRR")
    => /\ /\ Args # <<>>
          /\ Finite(Args)
          /\ \/ \A i \in 1..Len(Args) : Args[i].v > 0
             \/ \A i \in 1..Len(Args) : Args[i].v < 0
          => Result = NaN
       /\ ~Finite(Args) => Result = NaN
       /\ Finite(Args) /\ BoundsSign(Args) > 0 => Result = NaN
       /\ Finite(Args) /\ BoundsSign(Args) < 0 => Result.kind = "num"

\* solveIRR has returned NaN for the stream of three positive numbers
C26_Witness ==
    /\ IsCall("solveIRR")
    /\ Args = <<Num(100), Num(50), Num(50)>>
    /\ Result = NaN

\* solveIRR has returned NaN for a stream of both signs whose net present
\* value is negative at both bounds
C26_WitnessSameSign ==
    /\ IsCall("solveIRR")
    /\ Args = <<Num(-1000), Num(50)>>
    /\ NpvAtLow(Args) < 0
    /\ NpvAtHigh(Args) < 0
    /\ Result = NaN

\* solveIRR has returned NaN for a stream with a NaN in it
C26_WitnessNotFinite ==
    /\ IsCall("solveIRR")
    /\ ~Finite(Args)
    /\ Result = NaN

\* solveIRR has returned a rate for a stream whose net present value changes
\* sign, and the rate 0 for one of them
C26_WitnessRate ==
    /\ IsCall("solveIRR")
    /\ BoundsSign(Args) < 0
    /\ Result.kind = "num"
    /\ Sign(Result.num) = 0


\* the rate returned by the latest call, and the net present value there
ResultRate == Rate(Result.num, Result.den)

ResultNpv == npv(Args, ResultRate)

\* a / b < 1e-6 for b > 0
BelowMillionth(a, b) == Less(Times(Abs(a), Z(1000000)), b)

\* C27: for the cash flows [-1000, 1100] solveIRR terminates within 80
\* bisection steps and returns a rate in [-0.9, 1.5] that is within 1e-6 of
\* 0.10, with |NPV| at the returned rate below 1e-6; every rate solveIRR
\* returns is in [-0.9, 1.5] and found within 80 steps.
C27_Converges ==
    IsCall("solveIRR") /\ Result.kind = "num"
    => /\ Result.steps \in 1..80
       /\ ~Less(Times(Result.num, Z(10)), Times(Result.den, Z(-9)))
       /\ ~Less(Times(Result.den, Z(15)), Times(Result.num, Z(10)))
       /\ Args = <<Num(-1000), Num(1100)>>
          => /\ BelowMillionth(Plus(Times(Result.num, Z(10)), Neg(Result.den)),
                               Times(Result.den, Z(10)))
             /\ BelowMillionth(ResultNpv.p, ResultNpv.q)

\* solveIRR has returned a rate for [-1000, 1100], from inside its loop, at the
\* 30th midpoint
C27_Witness ==
    /\ IsCall("solveIRR")
    /\ Args = <<Num(-1000), Num(1100)>>
    /\ Result.kind = "num"
    /\ Result.steps = 30
    /\ Sign(ResultNpv.p) # 0


\* the inputs and the deal of the latest call of underwriteDeal
Inputs == Args.inputs

Deal == Args.deal

\* the four inputs are numbers
NumericInputs ==
    /\ Inputs.holdYears.kind = "num"
    /\ Inputs.rentGrowth.kind = "num"
    /\ Inputs.exitCap.kind = "num"
    /\ Inputs.capex.kind = "num"

\* what underwriteDeal is to make of its inputs, and the rows it is to return
Clamped ==
    /\ ~Result.threw
    /\ Result.scenario.hold.kind = "num"
    /\ Result.scenario.hold.v >= 1
    /\ Inputs.holdYears.kind = "num"
       => Result.scenario.hold.v = Max(1, Inputs.holdYears.v \div S)
    /\ Result.scenario.rentGrowth.kind = "num"
    /\ Result.scenario.rentGrowth.v \in (-1000)..1500
    /\ Result.scenario.exitCap.kind = "num"
    /\ Result.scenario.exitCap.v \in 300..1200
    /\ Result.scenario.capex.kind = "num"
    /\ Result.scenario.capex.v >= 0
    /\ Len(Result.cashFlows) = Result.scenario.hold.v

\* C24: for every scenario input, zero, negative, fractional or NaN holdYears,
\* rentGrowth, exitCap and capex included, underwriteDeal completes without
\* throwing, uses hold = max(1, floor(holdYears)) >= 1, rentGrowth in
\* [-0.10, 0.15], exitCap in [0.03, 0.12], capex >= 0, and returns exactly
\* hold yearly rows.
C24_InputsClamped == IsCall("underwriteDeal") => Clamped

\* For inputs that are numbers, in or out of their domains, all of it holds.
C24_NumbersClamped == IsCall("underwriteDeal") /\ NumericInputs => Clamped

\* underwriteDeal throws exactly when holdYears is NaN.
C24_ThrowsWithoutHold ==
    IsCall("underwriteDeal") => (Result.threw <=> Inputs.holdYears.kind = "NaN")

\* underwriteDeal has thrown on a NaN holdYears, the other inputs in their domains
C24_WitnessThrew ==
    /\ IsCall("underwriteDeal")
    /\ Inputs = [holdYears |-> NaN, rentGrowth |-> Num(300), exitCap |-> Num(600),
                 capex |-> Num(250)]
    /\ Result.threw

\* underwriteDeal has returned with a NaN rent growth, exit cap and capex: none
\* of them is clamped, every NOI is NaN and the exit value is 0
C24_WitnessNaNKept ==
    /\ IsCall("underwriteDeal")
    /\ Inputs = [holdYears |-> Num(27000), rentGrowth |-> NaN, exitCap |-> NaN,
                 capex |-> NaN]
    /\ ~Result.threw
    /\ Result.scenario = [hold |-> Num(2), rentGrowth |-> NaN, exitCap |-> NaN,
                          capex |-> NaN]
    /\ \A y \in 1..2 : Result.cashFlows[y].noi = NaN
    /\ Result.exitValue = Num(0)
    /\ Result.irr = NaN

\* underwriteDeal has clamped four numbers outside their domains, a negative
\* holdYears among them
C24_WitnessClamped ==
    /\ IsCall("underwriteDeal")
    /\ Inputs = [holdYears |-> Num(-20000), rentGrowth |-> Num(2500), exitCap |-> Num(0),
                 capex |-> Num(-500)]
    /\ Result.scenario = [hold |-> Num(1), rentGrowth |-> Num(1500), exitCap |-> Num(300),
                          capex |-> Num(0)]
    /\ Len(Result.cashFlows) = 1


\* the lift of year y and the rent index of year y as the ramp gives them
LiftAt(y) == IF y <= 2 THEN (Deal.marketNOILiftPct * y) \div 2 ELSE Deal.marketNOILiftPct

RECURSIVE RentIndexAt(_)
RentIndexAt(y) ==
    IF y = 0 THEN getNeighborhood(DATA, Deal.neighborhood).rentIndex
    ELSE (RentIndexAt(y - 1) * (S + Result.scenario.rentGrowth.v)) \div S

\* computeNOI of the year y on the base NOI base
NOIOn(base, y) ==
    Num(computeNOI(base, RentIndexAt(y), getNeighborhood(DATA, Deal.neighborhood).vacancy,
                   Product(Deal.productType).baseExpenseRatio))

\* a projection has been returned for numbers
Projected == IsCall("underwriteDeal") /\ NumericInputs /\ ~Result.threw

\* the NOI that goes into the base NOI of year y in the code: the in-place NOI
\* in year 1, the NOI projected for the year before afterwards
CarriedNOI(y) == IF y = 1 THEN Deal.inPlaceNOI ELSE Result.cashFlows[y - 1].noi.v

\* capex is charged in year 1 and in no other year
CapexInYearOne ==
    \A y \in 1..Len(Result.cashFlows) :
        Result.cashFlows[y].cashFlow =
            Num(Result.cashFlows[y].noi.v - Result.cashFlows[y].debtService
                - (IF y = 1 THEN Result.scenario.capex.v ELSE 0))

\* C25: year y's NOI is computeNOI applied to a base NOI that carries the
\* market lift as a 2-year linear ramp over the in-place NOI (half of
\* marketNOILiftPct in year 1, all of it from year 2 on, never more) and to the
\* rent index neighborhoodRentIndex x (1 + rentGrowth)^y; capex is charged
\* only in year 1.
C25_LiftRamp ==
    Projected
    => /\ \A y \in 1..Len(Result.cashFlows) :
             Result.cashFlows[y].noi = NOIOn((Deal.inPlaceNOI * (S + LiftAt(y))) \div S, y)
       /\ CapexInYearOne

\* In the code the base NOI of year y is the NOI projected for year y - 1,
\* lifted again.
C25_LiftCompounds ==
    Projected
    => /\ \A y \in 1..Len(Result.cashFlows) :
             Result.cashFlows[y].noi = NOIOn((CarriedNOI(y) * (S + LiftAt(y))) \div S, y)
       /\ CapexInYearOne

\* The first year is as the ramp gives it.
C25_FirstYear ==
    Projected => Result.cashFlows[1].noi = NOIOn((Deal.inPlaceNOI * (S + LiftAt(1))) \div S, 1)

\* a projection of three years whose base NOI in year 3 is above the in-place
\* NOI with the whole market lift, and whose capex was charged
C25_WitnessCompounded ==
    /\ Projected
    /\ Len(Result.cashFlows) = 3
    /\ Result.scenario.capex.v > 0
    /\ (CarriedNOI(3) * (S + LiftAt(3))) \div S
          > (Deal.inPlaceNOI * (S + Deal.marketNOILiftPct)) \div S
    /\ Result.cashFlows[3].noi # NOIOn((Deal.inPlaceNOI * (S + LiftAt(3))) \div S, 3)

NextDeals ==
    \/ CallSolveIRR
    \/ CallUnderwriteDeal

SpecDeals == InitFunctions /\ [][NextDeals]_vars


\* ------------------------------------------------------ claims on builds, loans and maturities
\* the properties of the portfolio
Properties == {state.properties[i] : i \in 1..Len(state.properties)}

\* C31: a property that startBuild created has no lease while its build record
\* is present (under construction or in lease-up); the lease is first created
\* at the stabilization transition
C31_NoLeaseWhileBuilding ==
    \A p \in Properties : Has(p.build) => ~HasLease(p)

\* C31, the part that holds: the property that startBuild appends has no lease,
\* and every stabilized property has one at the end of a year advance
C31_NoLeaseAtStart ==
    \A p \in Properties :
        (Has(p.build) /\ p.id.kind = "B" /\ p.id.year = state.year) => ~HasLease(p)

\* a property under construction holds a lease
C31_WitnessLeaseInConstruction ==
    \E p \in Properties :
        /\ Has(p.build)
        /\ Get(p.build).phase = "construction"
        /\ HasLease(p)


\* the entries of steps that applyOperatingCashFlow left (the entry before each
\* holds the run as handleMaturities left it)
CashFlowEntries == {k \in 2..Len(steps) : steps[k].step = "cashflow"}

\* C32: every property's loanBalance is >= 0 in every state; the
\* applyOperatingCashFlow of a year advance increases no loanBalance and leaves
\* the balance of an interest-only loan unchanged
C32_LoanBalance ==
    /\ \A p \in Properties : p.loanBalance >= 0
    /\ \A k \in CashFlowEntries :
          LET before == steps[k - 1].state.properties
              after == steps[k].state.properties
          IN  /\ Len(after) = Len(before)
              /\ \A i \in 1..Len(before) :
                    /\ after[i].id = before[i].id
                    /\ after[i].loanBalance >= 0
                    /\ after[i].loanBalance <= before[i].loanBalance
                    /\ before[i].interestOnly => after[i].loanBalance = before[i].loanBalance

\* a year advance whose cash flow step paid down an amortizing loan and left
\* the positive balance of an interest-only loan as it was
C32_Witness ==
    \E k \in CashFlowEntries :
        LET before == steps[k - 1].state.properties
            after == steps[k].state.properties
        IN  /\ \E i \in 1..Len(before) :
                  ~before[i].interestOnly /\ after[i].loanBalance < before[i].loanBalance
            /\ \E i \in 1..Len(before) :
                  /\ before[i].interestOnly
                  /\ before[i].loanBalance > 0
                  /\ after[i].loanBalance = before[i].loanBalance


\* the product type of x (a listing or a property) is in the zoning set of its
\* neighborhood
Zoned(x) == x.productType \in getNeighborhood(state, x.neighborhood).zoning

\* the neighborhood and product type pairs that the zoning does not allow
Unzoned ==
    {np \in {state.neighborhoods[i].id : i \in 1..Len(state.neighborhoods)}
            \X {DATA.productTypes[i].id : i \in 1..Len(DATA.productTypes)} :
        np[2] \notin getNeighborhood(state, np[1]).zoning}

\* C33: every listing and every property that buyListing or startBuild created
\* has a product type in the zoning set of its neighborhood; a startBuild for
\* a product type that the zoning does not allow returns the run as it was:
\* no change of state, nothing drawn from the generator
C33_Zoning ==
    /\ \A i \in 1..Len(state.listings) : Zoned(state.listings[i])
    /\ \A p \in Properties : p.id.kind \in {"P", "B"} => Zoned(p)
    /\ \A np \in Unzoned : startBuild(Cur, np[1], np[2]) = Cur
    /\ \A k \in 1..Len(steps) :
          (/\ steps[k].step = "call"
           /\ steps[k].cmd.op = "build"
           /\ <<steps[k].cmd.n, steps[k].cmd.p>> \in Unzoned)
          => (state = steps[k].state /\ rng = steps[k].rng)

\* a bought property and a built one are held, listings are on offer, and a
\* build that the zoning does not allow can be asked for
C33_Witness ==
    /\ \E p \in Properties : p.id.kind = "P"
    /\ \E p \in Properties : p.id.kind = "B"
    /\ state.listings # <<>>
    /\ Unzoned # {}

\* a build that the zoning does not allow has been asked for, by a player with
\* the cash for it
C33_WitnessRefused ==
    /\ Len(steps) = 1
    /\ steps[1].step = "call"
    /\ steps[1].cmd.op = "build"
    /\ <<steps[1].cmd.n, steps[1].cmd.p>> \in Unzoned
    /\ state.cash >= 3000
    /\ state = steps[1].state
    /\ rng = steps[1].rng


\* the run as it was when the call was made
CallBefore == [Cur EXCEPT !.state = steps[1].state, !.rng = steps[1].rng]

\* the call has drawn nothing, and the next year advance leaves the state it
\* would have left had the call not been made
AsIfNotCalled ==
    /\ rng = steps[1].rng
    /\ nextYear(Cur).state = nextYear(CallBefore).state

\* C34: a startBuild or renovateProperty that is refused for want of cash draws
\* no value from the generator: the year advance that follows leaves the state
\* it would have left had the command not been issued
C34_RefusalDrawsNothing ==
    /\ BuildShortOfCash => AsIfNotCalled
    /\ RenoShortOfCash => AsIfNotCalled

\* C34, the part that holds: a renovation refused for want of cash draws
\* nothing and the year advance that follows is the one without it
C34_RenovationDrawsNothing == RenoShortOfCash => AsIfNotCalled

\* a build has been refused for want of cash, no state has changed, and the
\* year advance that follows differs from the one without the call
C34_WitnessOtherYear ==
    /\ BuildShortOfCash
    /\ state = Before
    /\ rng = mulberry32(steps[1].rng)
    /\ nextYear(Cur).state.market # nextYear(CallBefore).state.market


\* C35: the loan of a built property is interest-only in every state in which
\* its build record is present, from startBuild until the stabilization
\* transition, also when the construction maturity (start year + 3) comes
\* before stabilization
C35_InterestOnlyWhileBuilding ==
    \A p \in Properties : Has(p.build) => p.interestOnly

\* the maturity of a property whose build record is present has been handled
\* with a refinance that went through
C35_WitnessRefinancedInBuild ==
    \E k \in MaturityEntries :
        /\ steps[k].ok
        /\ Has(PropertyOf(steps[k].before, steps[k].id).build)
        /\ PropertyOf(steps[k].before, steps[k].id).interestOnly
        /\ Has(PropertyOf(steps[k].refi, steps[k].id).build)
        /\ ~PropertyOf(steps[k].refi, steps[k].id).interestOnly


\* C36: at the end of every year advance, and after every purchase and build
\* start, no property of the portfolio has a maturityYear <= the current year:
\* every loan that matured in the year advance has been refinanced to a later
\* maturity, or its property has been removed
C36_NoMaturedLoanLeft ==
    /\ \A p \in Properties : p.maturityYear > state.year
    /\ \A k \in MaturityEntries :
          IF steps[k].ok
          THEN PropertyOf(steps[k].state, steps[k].id).maturityYear > steps[k].state.year
          ELSE IndexOf(steps[k].state.properties, steps[k].id) = 0

\* a year advance has refinanced one matured loan and force-sold the property
\* of another, and a property is still held
C36_Witness ==
    /\ \E k \in MaturityEntries :
          /\ steps[k].ok
          /\ PropertyOf(steps[k].before, steps[k].id).maturityYear <= steps[k].before.year
          /\ \E p \in Properties : p.id = steps[k].id
    /\ \E k \in MaturityEntries : ~steps[k].ok

\* a property bought in the current year and one whose build started in it
C36_WitnessBoughtAndBuilt ==
    /\ \E p \in Properties : p.id.kind = "P" /\ p.id.year = state.year
    /\ \E p \in Properties : p.id.kind = "B" /\ p.id.year = state.year


\* the property p has no maturityYear
NoMaturityYear(p) == "maturityYear" \notin DOMAIN p

\* the balance of p's loan after one year of amortization
Amortized(p) ==
    Max(0, p.loanBalance
           - annualDebtService(p.loanBalance, p.loanRate, p.amortYears, p.interestOnly).principal)

\* C37: a property without maturityYear (imported by importIntoTycoon, or of
\* an old save) is never selected by handleMaturities: no year advance
\* refinances or force-sells it, and over a year advance its loan terms stay
\* as they were but for the amortization of the balance
C37_NoMaturityNeverHandled ==
    /\ \A k \in MaturityEntries :
          ~NoMaturityYear(PropertyOf(steps[k].before, steps[k].id))
    /\ YearAdvanced
       => \A i \in 1..Len(steps[1].state.properties) :
             LET p == steps[1].state.properties[i]
             IN  NoMaturityYear(p)
                 => /\ IndexOf(state.properties, p.id) # 0
                    /\ NoMaturityYear(PropertyOf(state, p.id))
                    /\ PropertyOf(state, p.id).loanRate = p.loanRate
                    /\ PropertyOf(state, p.id).amortYears = p.amortYears
                    /\ PropertyOf(state, p.id).interestOnly = p.interestOnly
                    /\ PropertyOf(state, p.id).loanBalance = Amortized(p)

\* a year advance has handled the matured loan of one property and has left
\* the imported property beside it, whose loan has amortized
C37_Witness ==
    /\ YearAdvanced
    /\ MaturityEntries # {}
    /\ \E p \in Properties :
          /\ p.id.kind = "IMP"
          /\ NoMaturityYear(p)
          /\ p.loanBalance > 0
          /\ p.loanBalance < PropertyOf(steps[1].state, p.id).loanBalance

\* a property of an old save, without maturityYear, held through two year
\* advances
C37_WitnessOldSave ==
    /\ YearAdvanced
    /\ state.year >= 6
    /\ \E p \in Properties : p.id.kind = "P" /\ NoMaturityYear(p)


\* the equity that computePortfolio reports of st: total value - total debt + cash
EquityOf(st) == PortfolioOf(st, PortfolioLoop(st, 1, NoTotals)).equity

\* C38: a refinance that goes through, cash-out or paid-in, changes cash and
\* the property's loanBalance by the same amount: cash - loanBalance and the
\* portfolio equity are the same before and after it, and no other property
\* changes
C38_RefinanceFrame ==
    \A k \in MaturityEntries :
        steps[k].ok
        => LET before == steps[k].before
               after == steps[k].refi
               i == IndexOf(before.properties, steps[k].id)
           IN  /\ after.cash - before.cash
                  = after.properties[i].loanBalance - before.properties[i].loanBalance
               /\ after.cash - after.properties[i].loanBalance
                  = before.cash - before.properties[i].loanBalance
               /\ EquityOf(after) = EquityOf(before)
               /\ Len(after.properties) = Len(before.properties)
               /\ \A j \in 1..Len(before.properties) :
                     j # i => after.properties[j] = before.properties[j]

\* a paid-in refinance has gone through beside another property
C38_Witness ==
    \E k \in MaturityEntries :
        /\ steps[k].ok
        /\ steps[k].refi.cash < steps[k].before.cash
        /\ Len(steps[k].before.properties) = 2
        /\ EquityOf(steps[k].before) > 0

\* a cash-out refinance has gone through
C38_WitnessCashOut ==
    \E k \in MaturityEntries :
        /\ steps[k].ok
        /\ steps[k].refi.cash > steps[k].before.cash
        /\ PropertyOf(steps[k].refi, steps[k].id).loanBalance
              > PropertyOf(steps[k].before, steps[k].id).loanBalance


\* the step appends a BUY entry for listing l to the journal
Bought(l) ==
    /\ Len(state'.journal) = Len(state.journal) + 1
    /\ state'.journal[Len(state'.journal)].action = "BUY"
    /\ state'.journal[Len(state'.journal)].target = l.id

\* C39: buyListing is executed only in a state in which cash >= the down
\* payment of the listing (canBuy holds at the moment of the purchase), so no
\* purchase makes cash negative, whatever the order of the UI events
C39_BuyOnlyWithCash ==
    [][\A i \in 1..Len(state.listings) :
          Bought(state.listings[i])
          => canBuy(state, state.listings[i]) /\ (state.cash >= 0 => state'.cash >= 0)]_vars

\* the listings panel shows a Buy button for a listing that the cash in hand
\* cannot pay the down payment of
C39_WitnessStaleButton ==
    \E i \in 1..Len(state.listings) :
        /\ state.listings[i].id \in dom.buy
        /\ ~canBuy(state, state.listings[i])
        /\ state.cash >= 0

\* a purchase has left a negative cash balance
C39_WitnessOverdrawn ==
    /\ state.cash < 0
    /\ state.journal # <<>>
    /\ state.journal[Len(state.journal)].action = "BUY"
    /\ \A k \in 1..Len(state.journal) : state.journal[k].action \in {"BUY", "BUILD"}
    /\ state.year = 1


\* ------------------------------------------------------ state.js: saveRun, loadRun
\* The run is stored as JSON text under one key. Every value of the run state
\* is a finite number, a string, a boolean, null, an array or an object of
\* these, and JSON.parse(JSON.stringify(x)) gives such a value back field by
\* field; the stored text is held here as the value it parses to. The
\* generator is no part of the state and is not stored.
saveRun(st) == Some(st)

\* loadRun on the storage: the stored run, or null
loadRun(storage) == storage

\* click on Load Run: the stored run replaces the state, the generator is
\* made anew from the seed of the settings, and the page is drawn
LoadClick(c, storage, random) ==
    IF ~Has(loadRun(storage)) THEN c
    ELSE Redraw([c EXCEPT !.state = Get(loadRun(storage)),
                          !.rng = makeRng(settings.seed, random),
                          !.steps = <<>>])

\* the page opened again with a stored run: initRun takes its saved branch
Reopen(c, storage, random) ==
    IF ~Has(loadRun(storage)) THEN initRun(DATA, settings, makeRng(settings.seed, random))
    ELSE initRunSaved(Get(loadRun(storage)), makeRng(settings.seed, random))

\* a new run with a seed text in the settings; hist holds the storage, beside
\* it the generator as it was at the save, and after a load the run that goes
\* on from the save without it (twin)
InitSaveLoad ==
    /\ DATA = ReferenceData
    /\ settings \in [seed : SeedTexts, difficulty : Difficulties]
    /\ LET c == initRun(ReferenceData, settings, makeRng(settings.seed, 0))
       IN  /\ state = c.state
           /\ rng = c.rng
           /\ dom = c.dom
           /\ steps = <<>>
    /\ hist = [commands |-> 0, twin |-> Null, storage |-> Null, rngAtSave |-> 0,
               via |-> "new"]


\* click on Save Run
SaveRun ==
    /\ ~Has(hist.twin)
    /\ hist.storage # saveRun(state)
    /\ hist' = [hist EXCEPT !.storage = saveRun(state), !.rngAtSave = rng]
    /\ UNCHANGED <<DATA, settings, state, rng, steps, dom>>

\* the stored run has been brought back, which left the run as c: from here
\* on hist.twin is the run that goes on from the save with the generator of
\* the save
Loaded(c, via) ==
    /\ state' = c.state
    /\ rng' = c.rng
    /\ dom' = c.dom
    /\ steps' = c.steps
    /\ hist' = [hist EXCEPT !.via = via,
                            !.twin = Some(Redraw([state |-> Get(hist.storage),
                                                  rng |-> hist.rngAtSave,
                                                  steps |-> <<>>,
                                                  dom |-> dom]))]
    /\ UNCHANGED <<DATA, settings>>

\* click on Load Run, with a run in the storage
LoadRun ==
    /\ Has(hist.storage)
    /\ ~Has(hist.twin)
    /\ \E random \in RandomSeeds : Loaded(LoadClick(Cur, hist.storage, random), "load")

\* the page is opened again, with a run in the storage
ReopenPage ==
    /\ Has(hist.storage)
    /\ ~Has(hist.twin)
    /\ \E random \in RandomSeeds : Loaded(Reopen(Cur, hist.storage, random), "reopen")

\* a purchase or a build start, before the run is saved
PlayBeforeSave ==
    /\ ~Has(hist.storage)
    /\ (BuyListing \/ StartBuild)

NextSaveLoad ==
    \/ NextYear
    \/ PlayBeforeSave
    \/ SaveRun
    \/ LoadRun
    \/ ReopenPage

\* a seeded run that is played, saved, brought back from the storage and
\* advanced, beside the run that goes on from the save
SpecSaveLoad == InitSaveLoad /\ [][NextSaveLoad]_vars

\* the market, neighborhoods, properties, cash and listings of st, and the year
Played(st) ==
    [market |-> st.market, neighborhoods |-> st.neighborhoods,
     properties |-> st.properties, cash |-> st.cash, listings |-> st.listings,
     year |-> st.year]

\* C40: with a seed text in the settings, a run that is saved, loaded and then
\* advanced k years is in the same state (market, neighborhoods, properties,
\* cash, listings) as the run advanced k years from the save without the load
C40_SaveLoadTransparent ==
    Has(hist.twin) => Played(state) = Played(Twin.state)

\* C40, the part that holds: right after Load Run the state is the one that
\* was saved
C40_LoadRestoresState ==
    (Has(hist.twin) /\ hist.via = "load" /\ state.year = Get(hist.storage).year
     /\ steps = <<>>)
    => state = Get(hist.storage)

\* a run saved and loaded in the same year, and advanced one year, has
\* another market than the run that went on without the load
C40_WitnessOtherMarket ==
    /\ Has(hist.twin)
    /\ hist.via = "load"
    /\ state.year = Get(hist.storage).year + 1
    /\ Twin.state.year = state.year
    /\ state.market # Twin.state.market

\* the page opened again shows other listings than the run that was saved
C40_WitnessOtherListings ==
    /\ Has(hist.twin)
    /\ hist.via = "reopen"
    /\ state.year = Get(hist.storage).year
    /\ steps = <<>>
    /\ state.properties = Twin.state.properties
    /\ state.listings # Twin.state.listings

====
